---- MODULE Spec2Model ----
(***************************************************************************)
(* Model of the orchestrator service: agent selection, role based          *)
(* authorization, the on-behalf-of (OBO) token exchange, the dispatch to   *)
(* the sub-agents and the audit trail of the request handlers.             *)
(*                                                                         *)
(* Text is modelled as sequences of one-character strings so that          *)
(* str.lower() and the substring test `kw in text` are computed, not       *)
(* assumed.                                                                *)
(***************************************************************************)
EXTENDS Integers, Sequences, FiniteSets, TLC

(***************************************************************************)
(* Bounds of the model                                                     *)
(***************************************************************************)
\* number of words of a message given to the selector
MaxWords == 3
\* number of words of the message of a request that goes through a handler
MaxRequestWords == 1
\* number of roles in the role claim of a caller that goes through a handler
MaxRoles == 1
\* number of tool invocations the LLM agent makes while serving one request
MaxToolCalls == 1
\* number of request slots of the server
MaxReqs == 2
\* number of consecutive GET /health/agents calls
MaxHealthCalls == 2
\* length of the role list given to get_user_role_level
MaxRoleList == 3
\* number of token validations that run concurrently
MaxValidations == 2
\* number of direct calls of the agent service that run concurrently
MaxServiceCalls == 2
\* number of run_shell_agent calls of the python agent that run concurrently
MaxShellCalls == 2

(***************************************************************************)
(* Text                                                                    *)
(***************************************************************************)
UpperCase ==
  <<"A","B","C","D","E","F","G","H","I","J","K","L","M",
    "N","O","P","Q","R","S","T","U","V","W","X","Y","Z">>

LowerCase ==
  <<"a","b","c","d","e","f","g","h","i","j","k","l","m",
    "n","o","p","q","r","s","t","u","v","w","x","y","z">>

LowerChar(c) ==
  IF \E i \in 1..Len(UpperCase) : UpperCase[i] = c
    THEN LowerCase[CHOOSE i \in 1..Len(UpperCase) : UpperCase[i] = c]
    ELSE c

\* str.lower()
Lower(s) == [i \in 1..Len(s) |-> LowerChar(s[i])]

\* the Python test `kw in s` on strings
Contains(kw, s) ==
  \E i \in 0..(Len(s) - Len(kw)) : \A j \in 1..Len(kw) : s[i + j] = kw[j]

\* the words the messages given to the selector are made of
Words ==
  { <<"P","T","O">>,
    <<"P","y","t","h","o","n">>,
    <<"d","a","t","a","f","r","a","m","e">>,
    <<"h","t","m","l">>,
    <<"t","i","m","e">>,
    <<"o","f","f">> }

\* the words the messages of requests are made of
RequestWords ==
  { <<"P","T","O">>,
    <<"P","y","t","h","o","n">>,
    <<"o","f","f">> }

RECURSIVE Join(_)
Join(ws) ==
  IF Len(ws) = 0 THEN << >>
  ELSE IF Len(ws) = 1 THEN ws[1]
  ELSE ws[1] \o <<" ">> \o Join(Tail(ws))

MessagesOf(words, n) == { Join(ws) : ws \in UNION { [1..k -> words] : k \in 0..n } }

\* the messages given to the selector, and those of requests
Messages == MessagesOf(Words, MaxWords)

RequestMessages == MessagesOf(RequestWords, MaxRequestWords)

(***************************************************************************)
(* models.py                                                               *)
(***************************************************************************)
PYTHON == "python"
DOTNET == "dotnet"
AUTO == "auto"
AgentType == {PYTHON, DOTNET, AUTO}

\* Optional[AgentType]: the value None
NoAgent == "None"

(***************************************************************************)
(* agent_selector.py                                                       *)
(***************************************************************************)
python_keywords ==
  << <<"p","y","t","h","o","n">>,
     <<"p","a","n","d","a","s">>,
     <<"n","u","m","p","y">>,
     <<"d","a","t","a">>,
     <<"a","n","a","l","y","s","i","s">>,
     <<"d","a","t","a","f","r","a","m","e">>,
     <<"p","l","o","t">>,
     <<"v","i","s","u","a","l","i","z","a","t","i","o","n">>,
     <<"m","a","c","h","i","n","e"," ","l","e","a","r","n","i","n","g">>,
     <<"m","l">>,
     <<"f","a","s","t","a","p","i">>,
     <<"d","j","a","n","g","o">>,
     <<"j","u","p","y","t","e","r">>,
     <<"n","o","t","e","b","o","o","k">> >>

dotnet_keywords ==
  << <<".","n","e","t">>,
     <<"d","o","t","n","e","t">>,
     <<"c","#">>,
     <<"c","s","h","a","r","p">>,
     <<"a","s","p",".","n","e","t">>,
     <<"a","s","p","n","e","t">>,
     <<"e","n","t","i","t","y"," ","f","r","a","m","e","w","o","r","k">>,
     <<"e","f"," ","c","o","r","e">>,
     <<"b","l","a","z","o","r">>,
     <<"x","a","m","a","r","i","n">>,
     <<"m","a","u","i">>,
     <<"p","a","y","r","o","l","l">>,
     <<"p","t","o">>,
     <<"p","a","i","d"," ","t","i","m","e"," ","o","f","f">>,
     <<"v","a","c","a","t","i","o","n">>,
     <<"t","i","m","e"," ","o","f","f">>,
     <<"e","m","p","l","o","y","e","e">>,
     <<"s","a","l","a","r","y">>,
     <<"b","e","n","e","f","i","t","s">>,
     <<"m","y"," ","i","n","f","o">>,
     <<"m","y"," ","i","n","f","o","r","m","a","t","i","o","n">>,
     <<"m","y"," ","m","a","n","a","g","e","r">>,
     <<"m","y"," ","d","e","p","a","r","t","m","e","n","t">>,
     <<"h","i","r","e"," ","d","a","t","e">>,
     <<"j","o","b"," ","t","i","t","l","e">>,
     <<"a","v","a","i","l","a","b","l","e"," ","p","t","o">>,
     <<"h","o","w"," ","m","u","c","h"," ","p","t","o">>,
     <<"p","t","o"," ","b","a","l","a","n","c","e">>,
     <<"u","p","c","o","m","i","n","g"," ","t","i","m","e"," ","o","f","f">> >>

\* sum(1 for keyword in self.python_keywords if keyword in message_lower)
python_score(message_lower) ==
  Cardinality({ i \in 1..Len(python_keywords) :
                  Contains(python_keywords[i], message_lower) })

dotnet_score_per_occurrence(message_lower) ==
  Cardinality({ <<i, k>> \in (1..Len(dotnet_keywords)) \X (0..Len(message_lower)) :
                  /\ k + Len(dotnet_keywords[i]) <= Len(message_lower)
                  /\ \A j \in 1..Len(dotnet_keywords[i]) :
                       message_lower[k + j] = dotnet_keywords[i][j] })

\* sum(1 for keyword in self.dotnet_keywords if keyword in message_lower)
dotnet_score(message_lower) ==
  Cardinality({ i \in 1..Len(dotnet_keywords) :
                  Contains(dotnet_keywords[i], message_lower) })

select_by_keywords_tie_dotnet(message) ==
  LET message_lower == Lower(message)
      py == python_score(message_lower)
      dn == dotnet_score(message_lower)
  IN IF py > dn THEN PYTHON ELSE DOTNET

select_by_keywords_tie_auto(message) ==
  LET message_lower == Lower(message)
      py == python_score(message_lower)
      dn == dotnet_score(message_lower)
  IN IF py > dn THEN PYTHON
     ELSE IF dn > py THEN DOTNET
     ELSE AUTO

\* AgentSelector._select_by_keywords
select_by_keywords(message) ==
  LET message_lower == Lower(message)
      py == python_score(message_lower)
      dn == dotnet_score(message_lower)
  IN IF py > dn THEN PYTHON
     ELSE IF dn > py THEN DOTNET
     ELSE PYTHON

select_agent_keywords_first(message, preferred_agent) ==
  select_by_keywords(message)

\* AgentSelector.select_agent (sync wrapper)
select_agent(message, preferred_agent) ==
  IF preferred_agent # AUTO THEN preferred_agent
  ELSE select_by_keywords(message)

(***************************************************************************)
(* intelligent_routing.py: the routing oracle (Claude CLI subprocess)      *)
(***************************************************************************)
\* texts the CLI may put in the "result" field of its JSON output
OracleTexts ==
  { <<"d","o","t","n","e","t">>,
    <<"P","y","t","h","o","n">>,
    <<"d","o","t","n","e","t"," ","o","r"," ","p","y","t","h","o","n">>,
    <<"u","n","s","u","r","e">>,
    << >> }

\* what one invocation of the CLI can do
OracleOutcomes ==
  { [kind |-> k, text |-> << >>] :
      k \in {"exit_nonzero", "bad_json", "cli_missing", "exception"} }
  \cup { [kind |-> "result", text |-> t] : t \in OracleTexts }

\* the oracle is not invoked
NoOutcome == [kind |-> "not_invoked", text |-> << >>]

route_with_ai_failure_dotnet(enabled_flag, outcome) ==
  IF ~enabled_flag THEN NoAgent
  ELSE IF outcome.kind # "result" THEN DOTNET
  ELSE IF Contains(<<"d","o","t","n","e","t">>, Lower(outcome.text)) THEN DOTNET
  ELSE IF Contains(<<"p","y","t","h","o","n">>, Lower(outcome.text)) THEN PYTHON
  ELSE DOTNET

\* IntelligentRouter.route_with_ai
route_with_ai(enabled_flag, outcome) ==
  IF ~enabled_flag THEN NoAgent
  ELSE IF outcome.kind # "result" THEN NoAgent
  ELSE IF Contains(<<"d","o","t","n","e","t">>, Lower(outcome.text)) THEN DOTNET
  ELSE IF Contains(<<"p","y","t","h","o","n">>, Lower(outcome.text)) THEN PYTHON
  ELSE NoAgent

\* IntelligentRouter.__init__: the value of self.enabled after construction
router_enabled(enabled_arg, claude_available) ==
  IF enabled_arg /\ ~claude_available THEN FALSE ELSE enabled_arg

enabled_after_cli_missing_ignored(enabled_flag, outcome) == enabled_flag

\* the value of IntelligentRouter.enabled after route_with_ai
enabled_after(enabled_flag, outcome) ==
  IF enabled_flag /\ outcome.kind = "cli_missing" THEN FALSE ELSE enabled_flag

\* does select_agent_async start the oracle?
oracle_consulted(preferred_agent, enabled_flag) ==
  preferred_agent = AUTO /\ enabled_flag

\* AgentSelector.select_agent_async
select_agent_async(message, preferred_agent, enabled_flag, outcome) ==
  IF preferred_agent # AUTO THEN preferred_agent
  ELSE IF enabled_flag /\ route_with_ai(enabled_flag, outcome) # NoAgent
    THEN route_with_ai(enabled_flag, outcome)
  ELSE select_by_keywords(message)

(***************************************************************************)
(* authorization.py                                                        *)
(***************************************************************************)
\* role names that occur in role claims; "guest" has no policy entry
RoleNames == {"admin", "analyst", "user", "viewer", "guest"}

ROLE_PERMISSIONS_viewer_python(role) ==
  CASE role = "admin" -> {PYTHON, DOTNET}
    [] role = "analyst" -> {PYTHON}
    [] role = "user" -> {DOTNET}
    [] role = "viewer" -> {PYTHON}
    [] OTHER -> {}

ROLE_PERMISSIONS_user_python(role) ==
  CASE role = "admin" -> {PYTHON, DOTNET}
    [] role = "analyst" -> {PYTHON}
    [] role = "user" -> {PYTHON}
    [] role = "viewer" -> {}
    [] OTHER -> {}

\* AuthorizationService.ROLE_PERMISSIONS[role]["agents"], [] for other roles
ROLE_PERMISSIONS(role) ==
  CASE role = "admin" -> {PYTHON, DOTNET}
    [] role = "analyst" -> {PYTHON}
    [] role = "user" -> {DOTNET}
    [] role = "viewer" -> {}
    [] OTHER -> {}

check_agent_access_no_admin(roles, agent_type, allow_any) ==
  \/ \E role \in roles : agent_type \in ROLE_PERMISSIONS(role)
  \/ allow_any

check_agent_access_every_role(roles, agent_type, allow_any) ==
  \/ "admin" \in roles
  \/ roles # {} /\ \A role \in roles : agent_type \in ROLE_PERMISSIONS(role)
  \/ allow_any

\* AuthorizationService.check_agent_access
check_agent_access(roles, agent_type, allow_any) ==
  \/ "admin" \in roles
  \/ \E role \in roles : agent_type \in ROLE_PERMISSIONS(role)
  \/ allow_any

\* AuthorizationService.require_agent_access: "ok", or the status it raises
require_agent_access(roles, agent_type, allow_any) ==
  IF ~check_agent_access(roles, agent_type, allow_any) THEN 403 ELSE 0

RoleSets == { rs \in SUBSET RoleNames : Cardinality(rs) <= MaxRoles }

\* `role in roles` for the list of the roles claim
HasRole(role, roles) == \E i \in 1..Len(roles) : roles[i] = role

get_user_role_level_first_listed(roles) ==
  IF \E i \in 1..Len(roles) : roles[i] \in {"admin", "analyst", "user", "viewer"}
    THEN roles[CHOOSE i \in 1..Len(roles) :
                 /\ roles[i] \in {"admin", "analyst", "user", "viewer"}
                 /\ \A j \in 1..(i - 1) : roles[j] \notin {"admin", "analyst", "user", "viewer"}]
  ELSE "authenticated_no_role"

\* AuthorizationService.get_user_role_level
get_user_role_level(roles) ==
  IF HasRole("admin", roles) THEN "admin"
  ELSE IF HasRole("analyst", roles) THEN "analyst"
  ELSE IF HasRole("user", roles) THEN "user"
  ELSE IF HasRole("viewer", roles) THEN "viewer"
  ELSE "authenticated_no_role"

\* the role lists of a roles claim, duplicates and unknown roles included
RoleLists == UNION { [1..n -> RoleNames] : n \in 0..MaxRoleList }

(***************************************************************************)
(* config.py                                                               *)
(***************************************************************************)
PYTHON_AGENT_URL == "http://localhost:8000"
DOTNET_AGENT_URL == "http://localhost:5000"
PAYROLL_API_URL == "http://localhost:5100"

PYTHON_AGENT_SCOPES == <<"api://python-agent/access_as_user">>
DOTNET_AGENT_SCOPES == <<"api://dotnet-agent/access_as_user">>
PAYROLL_API_SCOPES == <<"api://payroll-api/access_as_user">>

(***************************************************************************)
(* Credentials                                                             *)
(***************************************************************************)
\* the caller that uses each request slot
CallerOf == <<"alice", "bob", "carol">>

\* no Authorization header / Optional[str] None
NoToken == [kind |-> "none"]

\* what jwt.decode finds in a bearer token
TokenChecks == {"ok", "expired", "bad_audience"}

\* the bearer tokens a caller may present
UserTokens(sub) ==
  { [kind |-> "user", sub |-> sub, check |-> "ok", roles |-> rs] : rs \in RoleSets }
  \cup { [kind |-> "user", sub |-> sub, check |-> c, roles |-> {}] :
           c \in TokenChecks \ {"ok"} }

\* the access token the identity provider issues in an OBO exchange
OboToken(user_token, scopes) ==
  [kind |-> "obo", sub |-> user_token.sub, scopes |-> scopes]

\* what the identity provider answers to an exchange
IdpOutcomes ==
  { [kind |-> "access_token", desc |-> ""],
    [kind |-> "rejected", desc |-> "AADSTS65001 consent required"],
    [kind |-> "rejected", desc |-> "AADSTS500133 assertion expired"],
    [kind |-> "exception", desc |-> "connection error"] }

(***************************************************************************)
(* auth.py                                                                 *)
(***************************************************************************)
NoUser == [kind |-> "none"]

\* the outcome of a call: status 0 is a normal return, otherwise the status of
\* the HTTPException raised (500 also for an exception FastAPI does not handle)
Raised(status, detail) == [status |-> status, detail |-> detail, value |-> NoToken]

Returned(value) == [status |-> 0, detail |-> [text |-> "", cause |-> ""], value |-> value]

acquire_token_on_behalf_of_unconfigured_bypass(configured, user_token, scopes, idp) ==
  IF ~configured THEN Returned(user_token)
  ELSE IF idp.kind = "access_token" THEN Returned(OboToken(user_token, scopes))
  ELSE Raised(500, [text |-> "OBO token acquisition failed", cause |-> idp.desc])

\* OBOTokenService.acquire_token_on_behalf_of; the HTTPException(401) raised
\* inside the try block is caught by `except Exception` and becomes a 500
acquire_token_on_behalf_of(configured, user_token, scopes, idp) ==
  IF ~configured
    THEN Raised(500, [text |-> "OBO not configured. Set AZURE_CLIENT_ID and AZURE_CLIENT_SECRET.",
                      cause |-> ""])
  ELSE IF idp.kind = "access_token" THEN Returned(OboToken(user_token, scopes))
  ELSE IF idp.kind = "rejected"
    THEN Raised(500, [text |-> "OBO token acquisition failed", cause |-> idp.desc])
  ELSE Raised(500, [text |-> "OBO token acquisition failed", cause |-> idp.desc])

\* get_obo_token
get_obo_token(configured, user_token, target_scopes, idp) ==
  acquire_token_on_behalf_of(configured, user_token, target_scopes, idp)

\* JWTValidator.get_signing_keys: the cache after the call, FALSE when the
\* fetch failed and the exception propagates
get_signing_keys(cache, fetch) ==
  IF cache THEN TRUE ELSE fetch = "ok"

\* JWTValidator.validate_token
validate_token(token, cache, fetch) ==
  IF ~get_signing_keys(cache, fetch)
    THEN [status |-> 500, detail |-> [text |-> "Internal Server Error", cause |-> ""],
          claims |-> NoUser]
  ELSE IF token.check = "ok"
    THEN [status |-> 0, detail |-> [text |-> "", cause |-> ""],
          claims |-> [kind |-> "claims", oid |-> token.sub, roles |-> token.roles]]
  ELSE [status |-> 401,
        detail |-> [text |-> "Invalid authentication credentials", cause |-> token.check],
        claims |-> NoUser]

get_current_user_anonymous(require_auth, test_roles, credentials, cache, fetch) ==
  IF ~require_auth \/ credentials = NoToken
    THEN [status |-> 0, detail |-> [text |-> "", cause |-> ""],
          claims |-> [kind |-> "claims", oid |-> "test-user", roles |-> test_roles]]
  ELSE validate_token(credentials, cache, fetch)

get_current_user_validates_header(require_auth, test_roles, credentials, cache, fetch) ==
  IF credentials # NoToken THEN validate_token(credentials, TRUE, fetch)
  ELSE IF ~require_auth
    THEN [status |-> 0, detail |-> [text |-> "", cause |-> ""],
          claims |-> [kind |-> "claims", oid |-> "test-user", roles |-> test_roles]]
  ELSE [status |-> 401, detail |-> [text |-> "Authorization header required", cause |-> ""],
        claims |-> NoUser]

\* get_current_user (FastAPI dependency of both POST handlers)
get_current_user(require_auth, test_roles, credentials, cache, fetch) ==
  IF ~require_auth
    THEN [status |-> 0, detail |-> [text |-> "", cause |-> ""],
          claims |-> [kind |-> "claims", oid |-> "test-user", roles |-> test_roles]]
  ELSE IF credentials = NoToken
    THEN [status |-> 401, detail |-> [text |-> "Authorization header required", cause |-> ""],
          claims |-> NoUser]
  ELSE validate_token(credentials, cache, fetch)

(***************************************************************************)
(* audit.py                                                                *)
(***************************************************************************)
\* AuditLogger.log_event: the event record that is emitted
log_event(event_type, agent_type, success, details) ==
  [event_type |-> event_type, agent_type |-> agent_type, success |-> success,
   details |-> details]

\* AuditLogger.log_jwt_validation
log_jwt_validation(user_claims, success) ==
  log_event(IF success THEN "jwt_validation_success" ELSE "jwt_validation_failure",
            NoAgent, success, [roles |-> user_claims.roles])

\* AuditLogger.log_agent_selection
log_agent_selection(user_claims, agent_type) ==
  log_event("agent_selected", agent_type, TRUE, [reason |-> "Intent analysis"])

\* AuditLogger.log_authorization_denied
log_authorization_denied(user_claims, resource, reason) ==
  log_event("authorization_denied", NoAgent, FALSE,
            [resource |-> resource, reason |-> reason])

\* AuditLogger.log_obo_exchange
log_obo_exchange(user_claims, agent_type, scopes, success, error) ==
  log_event(IF success THEN "obo_token_acquired" ELSE "obo_token_failed",
            agent_type, success, [scopes |-> scopes, error |-> error])

\* AuditLogger.log_agent_call
log_agent_call(user_claims, agent_type, success, error) ==
  log_event(IF success THEN "agent_call_success" ELSE "agent_call_failure",
            agent_type, success, [error |-> error])

(***************************************************************************)
(* sub_agent_client.py                                                     *)
(***************************************************************************)
\* what the downstream agent does with the POST
DownstreamOutcomes ==
  { [kind |-> "ok", status |-> "success"],     \* 2xx, JSON object
    [kind |-> "ok", status |-> "unknown"],     \* 2xx, JSON object without "status"
    [kind |-> "non_object", status |-> ""],    \* 2xx, JSON that is not an object
    [kind |-> "bad_json", status |-> ""],      \* 2xx, body is not JSON
    [kind |-> "status_error", status |-> ""],  \* non-2xx
    [kind |-> "timeout", status |-> ""],
    [kind |-> "connect_error", status |-> ""] }

\* SubAgentClient._get_agent_url; "ValueError" for any other agent type
get_agent_url(agent_type) ==
  IF agent_type = PYTHON THEN PYTHON_AGENT_URL
  ELSE IF agent_type = DOTNET THEN DOTNET_AGENT_URL
  ELSE "ValueError"

headers_without_flag(obo_token, require_auth) == obo_token

\* SubAgentClient.call_sub_agent, lines 63-74: the Authorization header
headers(obo_token, require_auth) ==
  IF obo_token # NoToken /\ require_auth THEN obo_token ELSE NoToken

\* SubAgentClient.call_sub_agent, lines 53-78: the POST that is sent
sub_agent_request(agent_type, message, obo_token, conversation_id, require_auth) ==
  [url |-> get_agent_url(agent_type),
   path |-> "/agent",
   agent_type |-> agent_type,
   authorization |-> headers(obo_token, require_auth),
   payload |-> [message |-> message, conversation_id |-> conversation_id]]

\* SubAgentClient.call_sub_agent, lines 76-107: what is returned (raised
\* FALSE) or which exception leaves the function
call_sub_agent(agent_type, outcome) ==
  IF outcome.kind = "ok"
    THEN [raised |-> FALSE, exc |-> "", agent_type |-> agent_type, status |-> outcome.status,
          message |-> [text |-> "reply of the agent", agent |-> ""]]
  ELSE IF outcome.kind = "non_object"
    THEN [raised |-> TRUE, exc |-> "AttributeError", agent_type |-> agent_type,
          status |-> "", message |-> [text |-> "", agent |-> ""]]
  ELSE IF outcome.kind = "bad_json"
    THEN [raised |-> TRUE, exc |-> "JSONDecodeError", agent_type |-> agent_type,
          status |-> "", message |-> [text |-> "", agent |-> ""]]
  ELSE IF outcome.kind = "status_error"
    THEN [raised |-> FALSE, exc |-> "", agent_type |-> agent_type, status |-> "error",
          message |-> [text |-> "Error calling agent", agent |-> agent_type]]
  ELSE [raised |-> FALSE, exc |-> "", agent_type |-> agent_type, status |-> "error",
        message |-> [text |-> "Failed to reach agent", agent |-> agent_type]]

\* what GET {url}/health of an agent does: an HTTP status, or an httpx error
HealthOutcomes == {"200", "503", "timeout", "connect_error"}

health_check_except_true(agent_type, outcome) ==
  IF get_agent_url(agent_type) = "ValueError" THEN TRUE
  ELSE outcome \in {"200", "timeout", "connect_error"}

\* SubAgentClient.health_check: every exception, the ValueError of
\* _get_agent_url included, is caught and False is returned
health_check(agent_type, outcome) ==
  IF get_agent_url(agent_type) = "ValueError" THEN FALSE
  ELSE IF outcome \in {"timeout", "connect_error"} THEN FALSE
  ELSE outcome = "200"

\* api.py check_sub_agents (GET /health/agents): the body returned
check_sub_agents(health) ==
  [orchestrator |-> "healthy",
   sub_agents |-> [python |-> IF health_check(PYTHON, health.python)
                                THEN "healthy" ELSE "unreachable",
                   dotnet |-> IF health_check(DOTNET, health.dotnet)
                                THEN "healthy" ELSE "unreachable"]]

(***************************************************************************)
(* State of the service                                                    *)
(***************************************************************************)
VARIABLES
  REQUIRE_AUTH,                  \* settings.REQUIRE_AUTH
  ALLOW_ANY_AUTHENTICATED_USER,  \* AuthorizationService.ALLOW_ANY_AUTHENTICATED_USER
  TEST_USER_ROLES,               \* constants.TEST_USER_ROLES, roles of the mock user
  msal_app,                      \* OBOTokenService.msal_app is not None
  agent,                         \* AgentFrameworkService.agent is not None
  enabled,                       \* IntelligentRouter.enabled
  jwks_cache,                    \* JWTValidator.jwks_cache is not None
  current_user_token,            \* AgentFrameworkService._current_user_token
  threads,                       \* AgentFrameworkService.threads: id -> thread
  reqs,                          \* the requests being served, one per slot
  unit                           \* the last direct call of a function

config == <<REQUIRE_AUTH, ALLOW_ANY_AUTHENTICATED_USER, TEST_USER_ROLES, msal_app, agent>>

service == <<enabled, jwks_cache, current_user_token, threads>>

vars == <<config, service, reqs, unit>>

ReqIds == 1..MaxReqs

\* conversation ids of requests; "None" is an absent id
ConvIds == {"c1"}

NoConversation == "None"

NoResponse == [code |-> 0]

\* thread=None of agent.run, and the empty dict of threads
NoThread == 0

NoThreads == [c \in {} |-> NoThread]

\* a free request slot
IdleReq ==
  [pc |-> "idle", endpoint |-> "none", message |-> << >>, preferred_agent |-> AUTO,
   conversation_id |-> NoConversation, credentials |-> NoToken,
   current_user |-> NoUser, selected_agent |-> NoAgent, obo_token |-> NoToken,
   user_token |-> NoToken, tool_calls |-> 0, downstream |-> "none",
   audit_failed |-> FALSE, thread |-> NoThread,
   audit |-> << >>, stages |-> << >>, calls |-> << >>, response |-> NoResponse]

NoCall == [op |-> "none"]

\* the singletons after construction: JWTValidator.__init__,
\* AgentFrameworkService.__init__, no request in flight
InitService ==
  /\ jwks_cache = FALSE
  /\ current_user_token = NoToken
  /\ threads = NoThreads
  /\ reqs = [r \in ReqIds |-> IdleReq]

\* the orchestration endpoint under every configuration of authentication,
\* policy fallback, mock user, client registration and routing oracle; the
\* agent framework is left unconfigured (the default settings).  The roles
\* of the mock user are read only when REQUIRE_AUTH is off (auth.py 154-161)
\* and are left empty otherwise.
Init ==
  /\ REQUIRE_AUTH \in BOOLEAN
  /\ ALLOW_ANY_AUTHENTICATED_USER \in BOOLEAN
  /\ TEST_USER_ROLES \in IF REQUIRE_AUTH THEN {{}} ELSE RoleSets
  /\ msal_app \in BOOLEAN
  /\ agent = FALSE
  /\ enabled \in BOOLEAN
  /\ InitService
  /\ unit = NoCall

\* both POST endpoints under the default policy (fallback on), with
\* authentication, client registration, agent framework and oracle free
InitBoth ==
  /\ REQUIRE_AUTH \in BOOLEAN
  /\ ALLOW_ANY_AUTHENTICATED_USER = TRUE
  /\ TEST_USER_ROLES = {}
  /\ msal_app \in BOOLEAN
  /\ agent \in BOOLEAN
  /\ enabled \in BOOLEAN
  /\ InitService
  /\ unit = NoCall

\* HTTPException(status_code, detail), or the 500 of an unhandled exception
HTTPError(code, detail) == [code |-> code, detail |-> detail]

\* a request takes the lowest free slot
FreeSlot(r) ==
  /\ reqs[r].pc = "idle"
  /\ \A q \in ReqIds : q < r => reqs[q].pc # "idle"

AllIdle == \A q \in ReqIds : reqs[q].pc = "idle"

(***************************************************************************)
(* FastAPI: a POST arrives, its dependencies run, then the handler body    *)
(***************************************************************************)
\* a POST with a message and a preference out of the given sets arrives at
\* the endpoint; its body has been parsed into an OrchestratorRequest
Arrive(r, ep, messages, preferences) ==
  /\ FreeSlot(r)
  /\ \E m \in messages, p \in preferences,
        c \in ConvIds \cup {NoConversation},
        cred \in UserTokens(CallerOf[r]) \cup {NoToken} :
       reqs' = [reqs EXCEPT ![r] =
                  [IdleReq EXCEPT !.pc = "authenticate", !.endpoint = ep, !.message = m,
                                  !.preferred_agent = p, !.conversation_id = c,
                                  !.credentials = cred]]
  /\ UNCHANGED <<config, service, unit>>

\* POST /agent/legacy (orchestrator_endpoint) or POST /agent
\* (agent_framework_endpoint) arrives
ReceiveRequest(r, ep) == Arrive(r, ep, RequestMessages, AgentType)

\* POST /agent arrives; agent_framework_endpoint does not read
\* request.preferred_agent, and the message only goes to the LLM, whose choice
\* of tools is free in ToolCall
ReceiveAgentRequest(r) == Arrive(r, "agent", { <<"P","T","O">> }, {AUTO})

\* the dependency get_current_user
Authenticate(r) ==
  /\ reqs[r].pc = "authenticate"
  /\ \E fetch \in {"ok", "fail"} :
       LET res == get_current_user(REQUIRE_AUTH, TEST_USER_ROLES, reqs[r].credentials,
                                   jwks_cache, fetch)
           validates == REQUIRE_AUTH /\ reqs[r].credentials # NoToken
       IN /\ jwks_cache' = IF validates THEN get_signing_keys(jwks_cache, fetch)
                           ELSE jwks_cache
          /\ IF res.status # 0
               THEN reqs' = [reqs EXCEPT ![r].pc = "done",
                                         ![r].stages = Append(@, "validate"),
                                         ![r].response = HTTPError(res.status, res.detail)]
               ELSE reqs' = [reqs EXCEPT ![r].pc = IF reqs[r].endpoint = "legacy"
                                                     THEN "select" ELSE "agent_start",
                                         ![r].stages = Append(@, "validate"),
                                         ![r].current_user = res.claims]
  /\ UNCHANGED <<config, enabled, current_user_token, threads, unit>>

(***************************************************************************)
(* api.py: orchestrator_endpoint                                           *)
(***************************************************************************)
\* lines 73-112: audit of the validation, then select_agent_async; it returns
\* at once unless the oracle is started, and then the handler awaits the
\* subprocess (intelligent_routing.py 86-94)
SelectAgent(r) ==
  /\ reqs[r].pc = "select"
  /\ IF oracle_consulted(reqs[r].preferred_agent, enabled)
       THEN reqs' = [reqs EXCEPT
                       ![r].pc = "await_oracle",
                       ![r].stages = Append(@, "select"),
                       ![r].audit = Append(@, log_jwt_validation(reqs[r].current_user, TRUE))]
       ELSE LET sel == select_agent_async(reqs[r].message, reqs[r].preferred_agent,
                                          enabled, NoOutcome)
            IN reqs' = [reqs EXCEPT
                          ![r].pc = "authorize",
                          ![r].selected_agent = sel,
                          ![r].stages = Append(@, "select"),
                          ![r].audit = @ \o <<log_jwt_validation(reqs[r].current_user, TRUE),
                                              log_agent_selection(reqs[r].current_user, sel)>>]
  /\ UNCHANGED <<config, service, unit>>

\* intelligent_routing.py lines 94-128 and api.py lines 103-112: the subprocess
\* completes, route_with_ai and select_agent_async return, the selection is
\* audited
OracleReturns(r) ==
  /\ reqs[r].pc = "await_oracle"
  /\ \E outcome \in OracleOutcomes :
       LET sel == select_agent_async(reqs[r].message, reqs[r].preferred_agent,
                                     TRUE, outcome)
       IN /\ enabled' = enabled_after(enabled, outcome)
          /\ reqs' = [reqs EXCEPT
                        ![r].pc = "authorize",
                        ![r].selected_agent = sel,
                        ![r].audit = Append(@, log_agent_selection(reqs[r].current_user, sel))]
  /\ UNCHANGED <<config, jwks_cache, current_user_token, threads, unit>>

\* audit.py lines 45-57 called from api.py line 88: log_event has no
\* try/except, so when json.dumps or the log sink raises, the exception leaves
\* log_jwt_validation and the handler, and FastAPI answers 500
LogEventRaises(r) ==
  /\ reqs[r].pc = "select"
  /\ reqs' = [reqs EXCEPT
                ![r].pc = "done",
                ![r].audit_failed = TRUE,
                ![r].response = HTTPError(500, [text |-> "Internal Server Error",
                                                cause |-> "log_event"])]
  /\ UNCHANGED <<config, service, unit>>

AuthorizeUnchecked(r) ==
  /\ reqs[r].pc = "authorize"
  /\ reqs' = [reqs EXCEPT ![r].pc = "exchange", ![r].stages = Append(@, "authorize")]
  /\ UNCHANGED <<config, service, unit>>

AuthorizeDeniedContinues(r) ==
  /\ reqs[r].pc = "authorize"
  /\ LET st == require_agent_access(reqs[r].current_user.roles, reqs[r].selected_agent,
                                    ALLOW_ANY_AUTHENTICATED_USER)
     IN IF st # 0
          THEN reqs' = [reqs EXCEPT
                          ![r].pc = "exchange",
                          ![r].stages = Append(@, "authorize"),
                          ![r].audit = Append(@, log_authorization_denied(
                                                   reqs[r].current_user,
                                                   reqs[r].selected_agent,
                                                   "does not have permission"))]
          ELSE reqs' = [reqs EXCEPT ![r].pc = "exchange",
                                    ![r].stages = Append(@, "authorize")]
  /\ UNCHANGED <<config, service, unit>>

\* lines 114-128: the authorization gate
Authorize(r) ==
  /\ reqs[r].pc = "authorize"
  /\ LET st == require_agent_access(reqs[r].current_user.roles, reqs[r].selected_agent,
                                    ALLOW_ANY_AUTHENTICATED_USER)
     IN IF st # 0
          THEN reqs' = [reqs EXCEPT
                          ![r].pc = "done",
                          ![r].stages = Append(@, "authorize"),
                          ![r].audit = Append(@, log_authorization_denied(
                                                   reqs[r].current_user,
                                                   reqs[r].selected_agent,
                                                   "does not have permission")),
                          ![r].response = HTTPError(st, [text |-> "does not have permission",
                                                         cause |-> ""])]
          ELSE reqs' = [reqs EXCEPT ![r].pc = "exchange",
                                    ![r].stages = Append(@, "authorize")]
  /\ UNCHANGED <<config, service, unit>>

target_scopes_dotnet_always(selected_agent) == DOTNET_AGENT_SCOPES

\* lines 135-139: the scopes requested for the selected agent
target_scopes(selected_agent) ==
  IF selected_agent = "python" THEN PYTHON_AGENT_SCOPES ELSE DOTNET_AGENT_SCOPES

AcquireOboIgnoreFailure(r) ==
  /\ reqs[r].pc = "exchange"
  /\ IF REQUIRE_AUTH /\ reqs[r].credentials # NoToken
       THEN \E idp \in IdpOutcomes :
              LET scopes == IF reqs[r].selected_agent = "python"
                              THEN PYTHON_AGENT_SCOPES ELSE DOTNET_AGENT_SCOPES
                  res == get_obo_token(msal_app, reqs[r].credentials, scopes, idp)
              IN reqs' = [reqs EXCEPT
                            ![r].pc = "dispatch",
                            ![r].obo_token = res.value,
                            ![r].stages = Append(@, "exchange"),
                            ![r].audit = Append(@, log_obo_exchange(
                                                     reqs[r].current_user,
                                                     reqs[r].selected_agent,
                                                     scopes, res.status = 0,
                                                     res.detail.text))]
       ELSE reqs' = [reqs EXCEPT ![r].pc = "dispatch"]
  /\ UNCHANGED <<config, service, unit>>

\* lines 130-167: the OBO exchange, attempted when REQUIRE_AUTH and credentials
AcquireObo(r) ==
  /\ reqs[r].pc = "exchange"
  /\ IF REQUIRE_AUTH /\ reqs[r].credentials # NoToken
       THEN \E idp \in IdpOutcomes :
              LET scopes == target_scopes(reqs[r].selected_agent)
                  res == get_obo_token(msal_app, reqs[r].credentials, scopes, idp)
              IN IF res.status = 0
                   THEN reqs' = [reqs EXCEPT
                                   ![r].pc = "dispatch",
                                   ![r].obo_token = res.value,
                                   ![r].stages = Append(@, "exchange"),
                                   ![r].audit = Append(@, log_obo_exchange(
                                                            reqs[r].current_user,
                                                            reqs[r].selected_agent,
                                                            scopes, TRUE, ""))]
                   ELSE reqs' = [reqs EXCEPT
                                   ![r].pc = "done",
                                   ![r].stages = Append(@, "exchange"),
                                   ![r].audit = Append(@, log_obo_exchange(
                                                            reqs[r].current_user,
                                                            reqs[r].selected_agent,
                                                            scopes, FALSE, res.detail.text)),
                                   ![r].response = HTTPError(res.status, res.detail)]
       ELSE reqs' = [reqs EXCEPT ![r].pc = "dispatch"]
  /\ UNCHANGED <<config, service, unit>>

\* lines 169-181 and call_sub_agent up to the POST: the request is sent, or
\* _get_agent_url raises and the handler audits the failure and re-raises
CallSubAgent(r) ==
  /\ reqs[r].pc = "dispatch"
  /\ IF get_agent_url(reqs[r].selected_agent) = "ValueError"
       THEN reqs' = [reqs EXCEPT
                       ![r].pc = "done",
                       ![r].stages = Append(@, "dispatch"),
                       ![r].audit = Append(@, log_agent_call(reqs[r].current_user,
                                                             reqs[r].selected_agent,
                                                             FALSE, "ValueError")),
                       ![r].response = HTTPError(500, [text |-> "Internal Server Error",
                                                       cause |-> "ValueError"])]
       ELSE reqs' = [reqs EXCEPT
                       ![r].pc = "await_agent",
                       ![r].stages = Append(@, "dispatch"),
                       ![r].calls = Append(@,
                          sub_agent_request(reqs[r].selected_agent, reqs[r].message,
                                            reqs[r].obo_token, reqs[r].conversation_id,
                                            REQUIRE_AUTH))]
  /\ UNCHANGED <<config, service, unit>>

\* lines 211-229: the body returned with HTTP 200
OrchestratorResponse(message, status, selected_agent, sub_agent_responses, obo_acquired) ==
  [code |-> 200, message |-> message, status |-> status,
   selected_agent |-> selected_agent, sub_agent_responses |-> sub_agent_responses,
   obo_token_acquired |-> obo_acquired]

\* lines 183-229 and call_sub_agent after the POST: the downstream answer
\* arrives (or fails), the call is audited and the response is built
SubAgentReply(r) ==
  /\ reqs[r].pc = "await_agent"
  /\ \E outcome \in DownstreamOutcomes :
       LET res == call_sub_agent(reqs[r].selected_agent, outcome)
       IN IF res.raised
            THEN reqs' = [reqs EXCEPT
                            ![r].pc = "done",
                            ![r].downstream = outcome.kind,
                            ![r].audit = Append(@, log_agent_call(reqs[r].current_user,
                                                                  reqs[r].selected_agent,
                                                                  FALSE, res.exc)),
                            ![r].response = HTTPError(500, [text |-> "Internal Server Error",
                                                            cause |-> res.exc])]
            ELSE reqs' = [reqs EXCEPT
                            ![r].pc = "done",
                            ![r].downstream = outcome.kind,
                            ![r].audit = Append(@, log_agent_call(reqs[r].current_user,
                                                                  reqs[r].selected_agent,
                                                                  TRUE, "")),
                            ![r].response = OrchestratorResponse(
                               res.message, "success", reqs[r].selected_agent,
                               << [agent_type |-> res.agent_type, message |-> res.message,
                                   status |-> res.status] >>,
                               reqs[r].obo_token # NoToken)]
  /\ UNCHANGED <<config, service, unit>>

\* the response is sent and the slot is free again
Complete(r) ==
  /\ reqs[r].pc = "done"
  /\ reqs' = [reqs EXCEPT ![r] = IdleReq]
  /\ UNCHANGED <<config, service, unit>>

(***************************************************************************)
(* api.py: agent_framework_endpoint; agent_framework_impl.py               *)
(***************************************************************************)
\* the tools of the agent: backend, path and scopes of each
Tools == {"get_user_info", "get_user_pto", "calculate"}

tool_url(tool) == IF tool = "calculate" THEN PYTHON_AGENT_URL ELSE PAYROLL_API_URL

tool_path(tool) ==
  IF tool = "calculate" THEN "/agent"
  ELSE IF tool = "get_user_info" THEN "/payroll/user-info"
  ELSE "/payroll/user-pto"

tool_scopes(tool) ==
  IF tool = "calculate" THEN PYTHON_AGENT_SCOPES ELSE PAYROLL_API_SCOPES

\* the thread objects that exist: those in the dict and those requests run on
ThreadsInUse ==
  { threads[c] : c \in DOMAIN threads } \cup { reqs[q].thread : q \in ReqIds }

\* agent.get_new_thread(): an object distinct from every existing thread
get_new_thread ==
  CHOOSE n \in 1..(Cardinality(ThreadsInUse) + 1) :
    /\ n \notin ThreadsInUse
    /\ \A m \in 1..(n - 1) : m \in ThreadsInUse

threads_after_rebind(thread_map, conversation_id, new_thread) ==
  IF conversation_id = NoConversation THEN thread_map
  ELSE [c \in DOMAIN thread_map \cup {conversation_id} |->
          IF c = conversation_id THEN new_thread ELSE thread_map[c]]

\* run_agent lines 301-308: the thread the request runs on
thread_of(thread_map, conversation_id, new_thread) ==
  IF conversation_id = NoConversation THEN NoThread
  ELSE IF conversation_id \in DOMAIN thread_map THEN thread_map[conversation_id]
  ELSE new_thread

\* run_agent lines 301-308: self.threads afterwards
threads_after(thread_map, conversation_id, new_thread) ==
  IF conversation_id = NoConversation THEN thread_map
  ELSE IF conversation_id \in DOMAIN thread_map THEN thread_map
  ELSE [c \in DOMAIN thread_map \cup {conversation_id} |->
          IF c = conversation_id THEN new_thread ELSE thread_map[c]]

\* api.py lines 247-291 and run_agent lines 294-308: the 503 check, then the
\* token is stored for the tools and the thread of the conversation is found
\* or created
AgentStart(r) ==
  /\ reqs[r].pc = "agent_start"
  /\ IF ~agent
       THEN /\ reqs' = [reqs EXCEPT
                          ![r].pc = "done",
                          ![r].response = HTTPError(503,
                             [text |-> "Agent Framework not available", cause |-> ""])]
            /\ UNCHANGED <<current_user_token, threads>>
       ELSE LET user_token == IF REQUIRE_AUTH /\ reqs[r].credentials # NoToken
                                THEN reqs[r].credentials ELSE NoToken
            IN /\ current_user_token' = user_token
               /\ threads' = threads_after(threads, reqs[r].conversation_id,
                                            get_new_thread)
               /\ reqs' = [reqs EXCEPT ![r].pc = "agent_running",
                                       ![r].user_token = user_token,
                                       ![r].thread = thread_of(threads,
                                                               reqs[r].conversation_id,
                                                               get_new_thread)]
  /\ UNCHANGED <<config, enabled, jwks_cache, unit>>

tool_headers_forward_user_token(require_auth, stored_token, exchange) ==
  IF require_auth /\ stored_token # NoToken THEN stored_token ELSE NoToken

\* get_user_info lines 124-133, get_user_pto lines 182-186, calculate lines
\* 243-248: the Authorization header of the tool's request
tool_headers(require_auth, stored_token, exchange) ==
  IF require_auth /\ stored_token # NoToken THEN exchange.value ELSE NoToken

\* get_user_info, get_user_pto, calculate: during agent.run the LLM invokes a
\* tool; a failed exchange is caught and reported to the LLM, no request is sent
ToolCall(r) ==
  /\ reqs[r].pc = "agent_running"
  /\ reqs[r].tool_calls < MaxToolCalls
  /\ \E tool \in Tools, idp \in IdpOutcomes :
       LET exchanges == REQUIRE_AUTH /\ current_user_token # NoToken
           res == IF exchanges
                    THEN get_obo_token(msal_app, current_user_token, tool_scopes(tool), idp)
                    ELSE Returned(NoToken)
       IN IF res.status # 0
            THEN reqs' = [reqs EXCEPT ![r].tool_calls = @ + 1]
            ELSE reqs' = [reqs EXCEPT
                            ![r].tool_calls = @ + 1,
                            ![r].calls = Append(@,
                               [url |-> tool_url(tool),
                                path |-> tool_path(tool),
                                agent_type |-> tool,
                                authorization |-> tool_headers(REQUIRE_AUTH,
                                                               current_user_token, res),
                                payload |-> [message |-> << >>,
                                             conversation_id |-> NoConversation]])]
  /\ UNCHANGED <<config, service, unit>>

\* run_agent lines 311-320 and api.py lines 293-314: agent.run returns or
\* raises, the stored token is cleared, the response is built
AgentFinish(r) ==
  /\ reqs[r].pc = "agent_running"
  /\ \E out \in {"text", "exception"} :
       reqs' = [reqs EXCEPT
                  ![r].pc = "done",
                  ![r].response = OrchestratorResponse(
                     [text |-> IF out = "text" THEN "reply of the agent"
                               ELSE "Error processing request", agent |-> ""],
                     "success", "agent-framework", << >>, FALSE)]
  /\ current_user_token' = NoToken
  /\ UNCHANGED <<config, enabled, jwks_cache, threads, unit>>

(***************************************************************************)
(* Direct calls of the selector and of the authorization service           *)
(***************************************************************************)
\* the arguments of a call that is about to be made
\* no agent is probed
NoHealth == [python |-> "none", dotnet |-> "none"]

\* no POST was built
NoRequest == [url |-> "none"]

UnitInput(kind, message, preferred, roles, agent_type) ==
  [op |-> "input", kind |-> kind, message |-> message, preferred_agent |-> preferred,
   roles |-> roles, agent_type |-> agent_type, consulted |-> FALSE, outcome |-> NoOutcome,
   health |-> NoHealth, reports |-> << >>, obo_token |-> NoToken,
   conversation_id |-> NoConversation, request |-> NoRequest, role_list |-> << >>,
   use_intelligent_routing |-> FALSE, claude_available |-> FALSE, result |-> "pending"]

\* the arguments of call_sub_agent: an agent, a message, a delegated token or
\* None, a conversation id or None
DispatchInputs ==
  { [UnitInput("dispatch", m, AUTO, {}, a) EXCEPT !.obo_token = t, !.conversation_id = c] :
      m \in RequestMessages, a \in {PYTHON, DOTNET},
      t \in {NoToken, OboToken([sub |-> "alice"], PYTHON_AGENT_SCOPES),
                      OboToken([sub |-> "alice"], DOTNET_AGENT_SCOPES)},
      c \in ConvIds \cup {NoConversation} }

\* the agents as the health probes find them, and the agent type probed
HealthInputs ==
  { [UnitInput("health", << >>, AUTO, {}, a) EXCEPT !.health = [python |-> hp, dotnet |-> hd]] :
      a \in AgentType, hp \in HealthOutcomes, hd \in HealthOutcomes }

\* the roles claim given to get_user_role_level
RoleLevelInputs ==
  { [UnitInput("role_level", << >>, AUTO, {}, NoAgent) EXCEPT !.role_list = rl] :
      rl \in RoleLists }

UnitInputs ==
  { [UnitInput("selector", m, p, {}, NoAgent) EXCEPT !.use_intelligent_routing = u,
                                                     !.claude_available = a] :
      m \in Messages, p \in AgentType, u \in BOOLEAN, a \in BOOLEAN }
  \cup { UnitInput("authorization", << >>, AUTO, roles, a) :
            roles \in SUBSET RoleNames, a \in AgentType }
  \cup HealthInputs
  \cup DispatchInputs
  \cup RoleLevelInputs

\* the selector and the authorization service of a fresh process, about to be
\* called with some arguments
InitUnit ==
  /\ unit \in UnitInputs
  /\ REQUIRE_AUTH \in IF unit.kind = "dispatch" THEN BOOLEAN ELSE {FALSE}
  /\ ALLOW_ANY_AUTHENTICATED_USER \in BOOLEAN
  /\ TEST_USER_ROLES = {}
  /\ msal_app = FALSE
  /\ agent = FALSE
  /\ enabled = router_enabled(unit.use_intelligent_routing, unit.claude_available)
  /\ InitService

CallSelectAgent ==
  /\ unit.op = "input" /\ unit.kind = "selector"
  /\ unit' = [unit EXCEPT !.op = "select_agent",
                          !.result = select_agent(unit.message, unit.preferred_agent)]
  /\ UNCHANGED <<config, service, reqs>>

CallSelectAgentAsync ==
  /\ unit.op = "input" /\ unit.kind = "selector"
  /\ \E outcome \in IF oracle_consulted(unit.preferred_agent, enabled)
                        THEN OracleOutcomes ELSE {NoOutcome} :
       /\ unit' = [unit EXCEPT !.op = "select_agent_async",
                               !.consulted = oracle_consulted(unit.preferred_agent, enabled),
                               !.outcome = outcome,
                               !.result = select_agent_async(unit.message,
                                                             unit.preferred_agent,
                                                             enabled, outcome)]
       /\ enabled' = IF oracle_consulted(unit.preferred_agent, enabled)
                       THEN enabled_after(enabled, outcome) ELSE enabled
  /\ UNCHANGED <<config, jwks_cache, current_user_token, threads, reqs>>

\* IntelligentRouter.route_with_ai called directly: the subprocess is started
\* only past the test of line 55
CallRouteWithAi ==
  /\ unit.op = "input" /\ unit.kind = "selector"
  /\ \E outcome \in IF enabled THEN OracleOutcomes ELSE {NoOutcome} :
       /\ unit' = [unit EXCEPT !.op = "route_with_ai",
                               !.consulted = enabled,
                               !.outcome = outcome,
                               !.result = route_with_ai(enabled, outcome)]
       /\ enabled' = enabled_after(enabled, outcome)
  /\ UNCHANGED <<config, jwks_cache, current_user_token, threads, reqs>>

CallSelectByKeywords ==
  /\ unit.op = "input" /\ unit.kind = "selector"
  /\ unit' = [unit EXCEPT !.op = "select_by_keywords",
                          !.result = select_by_keywords(unit.message)]
  /\ UNCHANGED <<config, service, reqs>>

CallCheckAgentAccess ==
  /\ unit.op = "input" /\ unit.kind = "authorization"
  /\ unit' = [unit EXCEPT !.op = "check_agent_access",
                          !.result = IF check_agent_access(unit.roles, unit.agent_type,
                                                           ALLOW_ANY_AUTHENTICATED_USER)
                                       THEN "True" ELSE "False"]
  /\ UNCHANGED <<config, service, reqs>>

CallRequireAgentAccess ==
  /\ unit.op = "input" /\ unit.kind = "authorization"
  /\ unit' = [unit EXCEPT !.op = "require_agent_access",
                          !.result = IF require_agent_access(unit.roles, unit.agent_type,
                                                             ALLOW_ANY_AUTHENTICATED_USER) = 0
                                       THEN "None" ELSE "HTTPException 403"]
  /\ UNCHANGED <<config, service, reqs>>

\* AuthorizationService.get_user_role_level called with a roles claim
CallGetUserRoleLevel ==
  /\ unit.op = "input" /\ unit.kind = "role_level"
  /\ unit' = [unit EXCEPT !.op = "get_user_role_level",
                          !.result = get_user_role_level(unit.role_list)]
  /\ UNCHANGED <<config, service, reqs>>

\* SubAgentClient.health_check called for one agent type
CallHealthCheck ==
  /\ unit.op = "input" /\ unit.kind = "health"
  /\ unit' = [unit EXCEPT !.op = "health_check",
                          !.result = IF health_check(unit.agent_type,
                                                     IF unit.agent_type = DOTNET
                                                       THEN unit.health.dotnet
                                                       ELSE unit.health.python)
                                       THEN "True" ELSE "False"]
  /\ UNCHANGED <<config, service, reqs>>

\* SubAgentClient.call_sub_agent up to the POST
CallCallSubAgent ==
  /\ unit.op = "input" /\ unit.kind = "dispatch"
  /\ unit' = [unit EXCEPT !.op = "call_sub_agent",
                          !.request = sub_agent_request(unit.agent_type, unit.message,
                                                        unit.obo_token,
                                                        unit.conversation_id,
                                                        REQUIRE_AUTH)]
  /\ UNCHANGED <<config, service, reqs>>

\* GET /health/agents, once more against the same agents
CallCheckSubAgents ==
  /\ unit.kind = "health"
  /\ unit.op \in {"input", "check_sub_agents"}
  /\ Len(unit.reports) < MaxHealthCalls
  /\ unit' = [unit EXCEPT !.op = "check_sub_agents",
                          !.reports = Append(@, check_sub_agents(unit.health))]
  /\ UNCHANGED <<config, service, reqs>>

(***************************************************************************)
(* auth.py: JWTValidator serving concurrent validations                    *)
(***************************************************************************)
Validations == 1..MaxValidations

\* the key sets the key source publishes over time, and no key set
KeySets == {"keys-1", "keys-2"}

NoKeys == "None"

\* a validation that is not running
IdleValidation == [pc |-> "idle", check |-> "ok", status |-> 0]

\* the validator after JWTValidator.__init__ (jwks_cache = None), with
\* AZURE_TENANT_ID set or missing
InitKeys ==
  /\ unit \in { [op |-> "validate_token", tenant |-> t, key_set |-> NoKeys,
                  val |-> [v \in Validations |-> IdleValidation]] : t \in BOOLEAN }
  /\ REQUIRE_AUTH = TRUE
  /\ ALLOW_ANY_AUTHENTICATED_USER = TRUE
  /\ TEST_USER_ROLES = {}
  /\ msal_app = FALSE
  /\ agent = FALSE
  /\ enabled = FALSE
  /\ InitService

\* validate_token is called and get_signing_keys runs up to its first await
\* (lines 25-39): a cache hit returns at once, a missing tenant raises, and
\* otherwise the GET of the metadata document is sent
StartValidation(v) ==
  /\ unit.val[v].pc = "idle"
  /\ \E c \in TokenChecks :
       unit' = [unit EXCEPT !["val"][v] =
                  [pc |-> IF jwks_cache THEN "decode"
                          ELSE IF ~unit.tenant THEN "done"
                          ELSE "get_metadata",
                   check |-> c,
                   status |-> IF ~jwks_cache /\ ~unit.tenant THEN 500 ELSE 0]]
  /\ UNCHANGED <<config, service, reqs>>

\* lines 39-41: the metadata document arrives and the GET of jwks_uri is
\* sent, or the request or the parsing of the answer raises
MetadataReturns(v) ==
  /\ unit.val[v].pc = "get_metadata"
  /\ \E fetch \in {"ok", "fail"} :
       unit' = [unit EXCEPT !["val"][v].pc = IF fetch = "ok" THEN "get_keys" ELSE "done",
                            !["val"][v].status = IF fetch = "ok" THEN 0 ELSE 500]
  /\ UNCHANGED <<config, service, reqs>>

\* lines 41-44: the key set arrives and is stored, or the request or the
\* parsing raises; this validation found the cache empty at line 25
KeysReturn(v) ==
  /\ unit.val[v].pc = "get_keys"
  /\ \E fetch \in {"ok", "fail"}, keys \in KeySets :
       /\ jwks_cache' = IF fetch = "ok" THEN get_signing_keys(FALSE, fetch) ELSE jwks_cache
       /\ unit' = [unit EXCEPT !.key_set = IF fetch = "ok" THEN keys ELSE @,
                               !["val"][v].pc = IF fetch = "ok" THEN "decode" ELSE "done",
                               !["val"][v].status = IF fetch = "ok" THEN 0 ELSE 500]
  /\ UNCHANGED <<config, enabled, current_user_token, threads, reqs>>

\* lines 53-78: jwt.decode against the key set
DecodeToken(v) ==
  /\ unit.val[v].pc = "decode"
  /\ unit' = [unit EXCEPT !["val"][v].pc = "done",
                          !["val"][v].status = IF unit.val[v].check = "ok" THEN 0 ELSE 401]
  /\ UNCHANGED <<config, service, reqs>>

\* validate_token has returned or raised
ValidationEnds(v) ==
  /\ unit.val[v].pc = "done"
  /\ unit' = [unit EXCEPT !["val"][v] = IdleValidation]
  /\ UNCHANGED <<config, service, reqs>>

(***************************************************************************)
(* agent_framework_impl.py: run_agent and run_agent_stream called directly *)
(***************************************************************************)
ServiceCalls == 1..MaxServiceCalls

\* no call of the service in this slot
IdleCall == [pc |-> "idle", method |-> "none", user_token |-> NoToken, result |-> "none"]

\* the user_token argument: None, or the token of the caller
ServiceTokens(c) ==
  {NoToken, [kind |-> "user", sub |-> CallerOf[c], check |-> "ok", roles |-> {}]}

\* the service after AgentFrameworkService.__init__, with the agent created
\* or not (Azure OpenAI configured or not)
InitAgentService ==
  /\ unit = [op |-> "agent_service", call |-> [c \in ServiceCalls |-> IdleCall]]
  /\ REQUIRE_AUTH = TRUE
  /\ ALLOW_ANY_AUTHENTICATED_USER = TRUE
  /\ TEST_USER_ROLES = {}
  /\ msal_app = TRUE
  /\ agent \in BOOLEAN
  /\ enabled = FALSE
  /\ InitService

\* run_agent lines 294-311: the early return without an agent, or the token
\* is stored, the thread is found or created and agent.run is awaited
CallRunAgent(c) ==
  /\ unit.call[c].pc = "idle"
  /\ \E tok \in ServiceTokens(c), conv \in ConvIds \cup {NoConversation} :
       IF ~agent
         THEN /\ unit' = [unit EXCEPT !.call[c] =
                            [pc |-> "idle", method |-> "run_agent", user_token |-> tok,
                             result |-> "Agent not initialized"]]
              /\ UNCHANGED <<current_user_token, threads>>
         ELSE /\ unit' = [unit EXCEPT !.call[c] =
                            [pc |-> "running", method |-> "run_agent", user_token |-> tok,
                             result |-> "none"]]
              /\ current_user_token' = tok
              /\ threads' = threads_after(threads, conv, get_new_thread)
  /\ UNCHANGED <<config, enabled, jwks_cache, reqs>>

RunAgentReturnsTokenKeptOnError(c) ==
  /\ unit.call[c].pc = "running"
  /\ \E out \in {"text", "Error processing request"} :
       /\ unit' = [unit EXCEPT !.call[c].pc = "idle", !.call[c].result = out]
       /\ current_user_token' = IF out = "text" THEN NoToken ELSE current_user_token
  /\ UNCHANGED <<config, enabled, jwks_cache, threads, reqs>>

\* run_agent lines 311-320: agent.run returns or raises, the text or the
\* error string is returned and the finally block clears the token
RunAgentReturns(c) ==
  /\ unit.call[c].pc = "running"
  /\ \E out \in {"text", "Error processing request"} :
       unit' = [unit EXCEPT !.call[c].pc = "idle", !.call[c].result = out]
  /\ current_user_token' = NoToken
  /\ UNCHANGED <<config, enabled, jwks_cache, threads, reqs>>

\* run_agent_stream lines 339-357, run by the first __anext__: without an
\* agent the error is yielded, otherwise the token is stored, the thread is
\* found or created and agent.run_stream is iterated
CallRunAgentStream(c) ==
  /\ unit.call[c].pc = "idle"
  /\ \E tok \in ServiceTokens(c), conv \in ConvIds \cup {NoConversation} :
       IF ~agent
         THEN /\ unit' = [unit EXCEPT !.call[c] =
                            [pc |-> "yielded_not_initialized", method |-> "run_agent_stream",
                             user_token |-> tok, result |-> "Agent not initialized"]]
              /\ UNCHANGED <<current_user_token, threads>>
         ELSE /\ unit' = [unit EXCEPT !.call[c] =
                            [pc |-> "streaming", method |-> "run_agent_stream",
                             user_token |-> tok, result |-> "none"]]
              /\ current_user_token' = tok
              /\ threads' = threads_after(threads, conv, get_new_thread)
  /\ UNCHANGED <<config, enabled, jwks_cache, reqs>>

\* lines 357-359: an update with text is yielded and the generator is resumed
StreamYields(c) ==
  /\ unit.call[c].pc = "streaming"
  /\ unit' = [unit EXCEPT !.call[c].result = "delta"]
  /\ UNCHANGED <<config, service, reqs>>

\* lines 361-363: agent.run_stream raises; the error is yielded from the
\* except block, the generator is suspended there
StreamRaises(c) ==
  /\ unit.call[c].pc = "streaming"
  /\ unit' = [unit EXCEPT !.call[c].pc = "yielded_error",
                          !.call[c].result = "Error processing request"]
  /\ UNCHANGED <<config, service, reqs>>

\* the generator finishes: after the error of line 340 it returns at line
\* 341, before the try block; otherwise the stream is exhausted, or the
\* generator is resumed after the error, or it is closed by its consumer, and
\* the finally block of lines 364-366 clears the token
StreamEnds(c) ==
  /\ unit.call[c].pc \in {"yielded_not_initialized", "streaming", "yielded_error"}
  /\ unit' = [unit EXCEPT !.call[c].pc = "idle"]
  /\ current_user_token' = IF unit.call[c].pc = "yielded_not_initialized"
                             THEN current_user_token ELSE NoToken
  /\ UNCHANGED <<config, enabled, jwks_cache, threads, reqs>>

(***************************************************************************)
(* python-agent agent.py: AgentService.run_shell_agent                     *)
(***************************************************************************)
ShellCalls == 1..MaxShellCalls

\* the conversation ids of the requests of the python agent
ShellConversations == {"c1", "c2"}

\* the session ids the CLI reports; "None" is no session: a conversation
\* without an entry in claude_sessions, or output without a session_id
SessionIds == {"s1", "s2"}

NoSession == "None"

\* what the subprocess does: the CLI is missing, another exception is raised,
\* it exits with a code other than 0, its output is not JSON, its output is
\* JSON but not an object (payload.get raises), or it is an object with or
\* without a session_id
ShellOutcomes ==
  { [kind |-> k, session_id |-> NoSession] :
      k \in {"cli_missing", "exception", "exit_nonzero", "bad_json", "not_an_object"} }
  \cup { [kind |-> "result", session_id |-> sid] : sid \in SessionIds \cup {NoSession} }

NoShellOutcome == [kind |-> "none", session_id |-> NoSession]

\* lines 32-35: the session given to --resume, None for no --resume
resume_session(claude_sessions, conversation_id) ==
  IF conversation_id # NoConversation THEN claude_sessions[conversation_id] ELSE NoSession

claude_sessions_after_cleared_on_error(claude_sessions, conversation_id, outcome) ==
  IF conversation_id = NoConversation THEN claude_sessions
  ELSE IF outcome.kind = "result" /\ outcome.session_id # NoSession
    THEN [claude_sessions EXCEPT ![conversation_id] = outcome.session_id]
  ELSE IF outcome.kind = "result" THEN claude_sessions
  ELSE [claude_sessions EXCEPT ![conversation_id] = NoSession]

\* lines 72-104: self.claude_sessions after the subprocess has finished
claude_sessions_after(claude_sessions, conversation_id, outcome) ==
  IF outcome.kind = "result" /\ outcome.session_id # NoSession
       /\ conversation_id # NoConversation
    THEN [claude_sessions EXCEPT ![conversation_id] = outcome.session_id]
  ELSE claude_sessions

\* no call of run_shell_agent in this slot
IdleShellCall ==
  [pc |-> "idle", conversation_id |-> NoConversation, resume |-> NoSession,
   outcome |-> NoShellOutcome]

\* the python agent after AgentService.__init__: no session is stored
InitShell ==
  /\ unit = [op |-> "run_shell_agent",
             claude_sessions |-> [c \in ShellConversations |-> NoSession],
             call |-> [c \in ShellCalls |-> IdleShellCall]]
  /\ REQUIRE_AUTH = FALSE
  /\ ALLOW_ANY_AUTHENTICATED_USER = TRUE
  /\ TEST_USER_ROLES = {}
  /\ msal_app = FALSE
  /\ agent = FALSE
  /\ enabled = FALSE
  /\ InitService

\* lines 29-63: the arguments are built, with --resume when a session is
\* stored for the conversation, and the subprocess is awaited
CallRunShellAgent(c) ==
  /\ unit.call[c].pc = "idle"
  /\ \E conv \in ShellConversations \cup {NoConversation} :
       unit' = [unit EXCEPT !.call[c] =
                  [pc |-> "running", conversation_id |-> conv,
                   resume |-> resume_session(unit.claude_sessions, conv),
                   outcome |-> NoShellOutcome]]
  /\ UNCHANGED <<config, service, reqs>>

\* lines 55-104: the subprocess finishes or fails, the session id is stored
\* and the response text is returned
RunShellAgentReturns(c) ==
  /\ unit.call[c].pc = "running"
  /\ \E outcome \in ShellOutcomes :
       unit' = [unit EXCEPT
                  !.claude_sessions = claude_sessions_after(@, unit.call[c].conversation_id,
                                                            outcome),
                  !.call[c].pc = "idle",
                  !.call[c].outcome = outcome]
  /\ UNCHANGED <<config, service, reqs>>

(***************************************************************************)
(* Specifications                                                          *)
(***************************************************************************)
\* the python agent serving run_shell_agent calls concurrently
NextShell ==
  \/ \E c \in ShellCalls : CallRunShellAgent(c)
  \/ \E c \in ShellCalls : RunShellAgentReturns(c)

SpecShell == InitShell /\ [][NextShell]_vars

\* run_agent and run_agent_stream called concurrently on the one service
NextAgentService ==
  \/ \E c \in ServiceCalls : CallRunAgent(c)
  \/ \E c \in ServiceCalls : RunAgentReturns(c)
  \/ \E c \in ServiceCalls : CallRunAgentStream(c)
  \/ \E c \in ServiceCalls : StreamYields(c)
  \/ \E c \in ServiceCalls : StreamRaises(c)
  \/ \E c \in ServiceCalls : StreamEnds(c)

SpecAgentService == InitAgentService /\ [][NextAgentService]_vars

\* the validator under concurrent requests: the coroutines interleave at the
\* two awaits of get_signing_keys
NextKeys ==
  \/ \E v \in Validations : StartValidation(v)
  \/ \E v \in Validations : MetadataReturns(v)
  \/ \E v \in Validations : KeysReturn(v)
  \/ \E v \in Validations : DecodeToken(v)
  \/ \E v \in Validations : ValidationEnds(v)

SpecKeys == InitKeys /\ [][NextKeys]_vars

\* the steps of a request to POST /agent/legacy
HandleLegacy(r) ==
  \/ Authenticate(r)
  \/ SelectAgent(r)
  \/ OracleReturns(r)
  \/ Authorize(r)
  \/ AcquireObo(r)
  \/ CallSubAgent(r)
  \/ SubAgentReply(r)
  \/ Complete(r)

\* the steps of a request to POST /agent
HandleAgent(r) ==
  \/ AgentStart(r)
  \/ ToolCall(r)
  \/ AgentFinish(r)

\* the orchestration endpoint serving one request after the other
Next ==
  \/ \E r \in ReqIds : AllIdle /\ ReceiveRequest(r, "legacy")
  \/ \E r \in ReqIds : HandleLegacy(r)

Spec == Init /\ [][Next]_vars

\* the orchestration endpoint with an audit sink that may raise
NextAudit ==
  \/ Next
  \/ \E r \in ReqIds : LogEventRaises(r)

SpecAudit == Init /\ [][NextAudit]_vars

\* both endpoints serving one request after the other
NextBoth ==
  \/ \E r \in ReqIds, ep \in {"legacy", "agent"} : AllIdle /\ ReceiveRequest(r, ep)
  \/ \E r \in ReqIds : HandleLegacy(r)
  \/ \E r \in ReqIds : HandleAgent(r)

SpecBoth == InitBoth /\ [][NextBoth]_vars

\* the steps of a request the server itself takes once they are enabled: the
\* event loop runs every ready coroutine and the HTTP clients have timeouts
\* (sub_agent_client.py 15, 77).  The completion of the oracle subprocess is
\* not among them: process.communicate() is awaited without a timeout.
ServerStep(r) ==
  \/ Authenticate(r)
  \/ SelectAgent(r)
  \/ Authorize(r)
  \/ AcquireObo(r)
  \/ CallSubAgent(r)
  \/ SubAgentReply(r)
  \/ Complete(r)

\* the routing oracle is switched on and the client is registered
InitLive ==
  /\ REQUIRE_AUTH \in BOOLEAN
  /\ ALLOW_ANY_AUTHENTICATED_USER \in BOOLEAN
  /\ TEST_USER_ROLES = {}
  /\ msal_app = TRUE
  /\ agent = FALSE
  /\ enabled = TRUE
  /\ InitService
  /\ unit = NoCall

\* the orchestration endpoint with the oracle on and a fair scheduler
SpecLive == InitLive /\ [][Next]_vars /\ \A r \in ReqIds : WF_vars(ServerStep(r))

\* authentication on, client registered, agent framework configured
InitConc ==
  /\ REQUIRE_AUTH = TRUE
  /\ ALLOW_ANY_AUTHENTICATED_USER = TRUE
  /\ TEST_USER_ROLES = {}
  /\ msal_app = TRUE
  /\ agent = TRUE
  /\ enabled = FALSE
  /\ InitService
  /\ unit = NoCall

\* POST /agent serving requests concurrently: the coroutines of the requests
\* interleave at every await (agent.run, the exchange, the tool's HTTP call)
\* and share the one AgentFrameworkService
NextConc ==
  \/ \E r \in ReqIds : ReceiveAgentRequest(r)
  \/ \E r \in ReqIds : Authenticate(r)
  \/ \E r \in ReqIds : HandleAgent(r)
  \/ \E r \in ReqIds : Complete(r)

SpecConc == InitConc /\ [][NextConc]_vars

\* the selector and the authorization service called directly
NextUnit ==
  \/ CallSelectAgent
  \/ CallSelectAgentAsync
  \/ CallSelectByKeywords
  \/ CallCheckAgentAccess
  \/ CallRequireAgentAccess
  \/ CallHealthCheck
  \/ CallCheckSubAgents
  \/ CallCallSubAgent
  \/ CallGetUserRoleLevel
  \/ CallRouteWithAi

SpecUnit == InitUnit /\ [][NextUnit]_vars

(***************************************************************************)
(* Properties                                                              *)
(***************************************************************************)
InSeq(x, s) == \E i \in 1..Len(s) : s[i] = x

\* the position of a stage in the pipeline
StageRank(stage) ==
  CASE stage = "validate" -> 1
    [] stage = "select" -> 2
    [] stage = "authorize" -> 3
    [] stage = "exchange" -> 4
    [] stage = "dispatch" -> 5

\* does the request have to exchange the caller's token?
ExchangeRequired(q) == REQUIRE_AUTH /\ q.credentials # NoToken

\* C1: whatever the message and whatever the oracle would answer, a call of
\* select_agent or of select_agent_async with a preferred agent other than AUTO
\* returns that agent, and the oracle is not started.
ExplicitPreferenceWins ==
  (unit.op \in {"select_agent", "select_agent_async"} /\ unit.preferred_agent # AUTO)
    => (unit.result = unit.preferred_agent /\ ~unit.consulted)

\* select_agent_async, router enabled, preference DOTNET, a message with
\* python keywords only
ExplicitPreferenceWinsWitness ==
  /\ unit.op = "select_agent_async"
  /\ enabled
  /\ unit.preferred_agent = DOTNET
  /\ python_score(Lower(unit.message)) > 0
  /\ dotnet_score(Lower(unit.message)) = 0
  /\ unit.result = DOTNET

\* C2: keyword routing (preference AUTO, no oracle answer) of a message whose
\* python score equals its dotnet score returns PYTHON, also when both are 0.
TieDefaultsToPython ==
  ( /\ unit.op \in {"select_by_keywords", "select_agent", "select_agent_async"}
    /\ unit.preferred_agent = AUTO
    /\ ~unit.consulted
    /\ python_score(Lower(unit.message)) = dotnet_score(Lower(unit.message)) )
    => unit.result = PYTHON

\* a tie of 1 to 1
TieDefaultsToPythonWitness ==
  /\ unit.op = "select_by_keywords"
  /\ python_score(Lower(unit.message)) = 1
  /\ dotnet_score(Lower(unit.message)) = 1
  /\ unit.result = PYTHON

\* C3: a role set that contains "admin" is granted every agent type by
\* check_agent_access, and require_agent_access does not raise, whatever the
\* other roles and whatever ALLOW_ANY_AUTHENTICATED_USER.
AdminNeverDenied ==
  "admin" \in unit.roles =>
    /\ unit.op = "check_agent_access" => unit.result = "True"
    /\ unit.op = "require_agent_access" => unit.result = "None"

\* admin next to a role without agents, fallback off
AdminNeverDeniedWitness ==
  /\ unit.op = "require_agent_access"
  /\ unit.roles = {"admin", "viewer"}
  /\ ~ALLOW_ANY_AUTHENTICATED_USER
  /\ unit.result = "None"

\* C4: the agent given to the authorization gate, to the choice of the scopes
\* and to the dispatcher is PYTHON or DOTNET, never AUTO.
NeverAutoDownstream ==
  \A r \in ReqIds :
    /\ reqs[r].pc \in {"authorize", "exchange", "dispatch", "await_agent"}
         => reqs[r].selected_agent \in {PYTHON, DOTNET}
    /\ \A i \in 1..Len(reqs[r].calls) : reqs[r].calls[i].agent_type \in {PYTHON, DOTNET}

\* a request with preference AUTO and a tie of the scores is being dispatched
NeverAutoDownstreamWitness ==
  \E r \in ReqIds :
    /\ reqs[r].pc = "await_agent"
    /\ reqs[r].preferred_agent = AUTO
    /\ python_score(Lower(reqs[r].message)) = dotnet_score(Lower(reqs[r].message))
    /\ reqs[r].selected_agent = PYTHON

\* the scopes configured for the backend behind a URL
ScopesOfBackend(url) ==
  CASE url = PYTHON_AGENT_URL -> PYTHON_AGENT_SCOPES
    [] url = DOTNET_AGENT_URL -> DOTNET_AGENT_SCOPES
    [] url = PAYROLL_API_URL -> PAYROLL_API_SCOPES

\* C5: a request sent to a backend agent or to the payroll API carries either
\* no Authorization header or the result of an OBO exchange for the scopes of
\* that backend; it never carries the bearer token the caller presented.
NoInboundTokenDownstream ==
  \A r \in ReqIds : \A i \in 1..Len(reqs[r].calls) :
    LET call == reqs[r].calls[i]
    IN call.authorization # NoToken =>
         /\ call.authorization.kind = "obo"
         /\ call.authorization # reqs[r].credentials
         /\ call.authorization.scopes = ScopesOfBackend(call.url)

\* a tool of the agent calls the payroll API with an exchanged token
NoInboundTokenDownstreamWitness ==
  \E r \in ReqIds : \E i \in 1..Len(reqs[r].calls) :
    /\ reqs[r].endpoint = "agent"
    /\ reqs[r].credentials.kind = "user"
    /\ reqs[r].calls[i].url = PAYROLL_API_URL
    /\ reqs[r].calls[i].authorization.kind = "obo"

\* C6: the stages of a request occur in the order validate, select, authorize,
\* exchange, dispatch; the exchange starts only after the authorization check
\* has passed, the dispatch only after a required exchange has succeeded.
StagesInPipelineOrder ==
  \A r \in ReqIds :
    LET q == reqs[r]
    IN /\ \A i \in 1..Len(q.stages) : \A j \in 1..Len(q.stages) :
            i < j => StageRank(q.stages[i]) < StageRank(q.stages[j])
       /\ Len(q.stages) > 0 => q.stages[1] = "validate"
       /\ InSeq("authorize", q.stages) => InSeq("select", q.stages)
       /\ (InSeq("exchange", q.stages) \/ InSeq("dispatch", q.stages)) =>
            /\ InSeq("authorize", q.stages)
            /\ check_agent_access(q.current_user.roles, q.selected_agent,
                                  ALLOW_ANY_AUTHENTICATED_USER)
       /\ (InSeq("dispatch", q.stages) /\ ExchangeRequired(q)) =>
            /\ InSeq("exchange", q.stages)
            /\ q.obo_token.kind = "obo"

\* a request that went through all five stages
StagesInPipelineOrderWitness ==
  \E r \in ReqIds :
    reqs[r].stages = <<"validate", "select", "authorize", "exchange", "dispatch">>

\* C7: with REQUIRE_AUTH on, a request without Authorization header ends with
\* 401 and nothing but the validation stage ever runs for it.
MissingHeaderRejectedFirst ==
  \A r \in ReqIds :
    (REQUIRE_AUTH /\ reqs[r].credentials = NoToken
       /\ reqs[r].pc \notin {"idle", "authenticate"})
      => /\ reqs[r].pc = "done"
         /\ reqs[r].response.code = 401
         /\ reqs[r].stages = <<"validate">>
         /\ reqs[r].selected_agent = NoAgent
         /\ reqs[r].audit = << >>
         /\ reqs[r].calls = << >>

MissingHeaderRejectedFirstWitness ==
  \E r \in ReqIds :
    /\ REQUIRE_AUTH
    /\ reqs[r].credentials = NoToken
    /\ reqs[r].pc = "done"
    /\ reqs[r].response.code = 401

\* C8: with ALLOW_ANY_AUTHENTICATED_USER off, a caller whose only role is
\* "viewer" is denied whatever agent is selected: once the gate has run the
\* request is finished with 403, the last audit event is authorization_denied,
\* and neither the exchange nor the dispatch was attempted.
ViewerDenied ==
  \A r \in ReqIds :
    LET q == reqs[r]
    IN (~ALLOW_ANY_AUTHENTICATED_USER /\ q.current_user # NoUser
          /\ q.current_user.roles = {"viewer"} /\ InSeq("authorize", q.stages))
         => /\ q.pc = "done"
            /\ q.response.code = 403
            /\ Len(q.audit) > 0
            /\ q.audit[Len(q.audit)].event_type = "authorization_denied"
            /\ ~InSeq("exchange", q.stages)
            /\ ~InSeq("dispatch", q.stages)
            /\ q.obo_token = NoToken
            /\ q.calls = << >>

\* a validated token with the role viewer, keyword routing chose an agent
ViewerDeniedWitness ==
  \E r \in ReqIds :
    /\ ~ALLOW_ANY_AUTHENTICATED_USER
    /\ REQUIRE_AUTH
    /\ reqs[r].preferred_agent = AUTO
    /\ reqs[r].current_user # NoUser
    /\ reqs[r].current_user.roles = {"viewer"}
    /\ reqs[r].selected_agent = PYTHON
    /\ reqs[r].response.code = 403

NotConfiguredText == "OBO not configured. Set AZURE_CLIENT_ID and AZURE_CLIENT_SECRET."

\* C9: without client registration (msal_app is None) no request obtains a
\* delegated token, and a request that was authenticated (REQUIRE_AUTH on) and
\* has passed the authorization gate ends with the 500 "OBO not configured":
\* its last audit event is obo_token_failed with that reason and no downstream
\* request was sent.
NotConfiguredFailsExchange ==
  \A r \in ReqIds :
    LET q == reqs[r]
    IN ~msal_app =>
         /\ q.obo_token = NoToken
         /\ (REQUIRE_AUTH /\ InSeq("authorize", q.stages)
               /\ q.pc \notin {"exchange"} /\ q.response.code # 403)
              => /\ q.pc = "done"
                 /\ q.response.code = 500
                 /\ q.response.detail.text = NotConfiguredText
                 /\ q.audit[Len(q.audit)].event_type = "obo_token_failed"
                 /\ q.audit[Len(q.audit)].details.error = NotConfiguredText
                 /\ ~InSeq("dispatch", q.stages)
                 /\ q.calls = << >>

NotConfiguredFailsExchangeWitness ==
  \E r \in ReqIds :
    /\ ~msal_app
    /\ REQUIRE_AUTH
    /\ InSeq("exchange", reqs[r].stages)
    /\ reqs[r].response.code = 500

\* the downstream failures of a dispatch
DispatchFailures == {"timeout", "connect_error", "status_error"}

\* C10: when the downstream agent times out, is unreachable or answers
\* non-2xx, the response of the orchestrator is HTTP 200 with the top-level
\* status "error" and a message that names the failing agent.
DispatchFailureIsStatusError ==
  \A r \in ReqIds :
    (reqs[r].pc = "done" /\ reqs[r].downstream \in DispatchFailures)
      => /\ reqs[r].response.code = 200
         /\ reqs[r].response.status = "error"
         /\ reqs[r].response.message.agent = reqs[r].selected_agent

\* C11: a request whose dispatch failed (timeout, connection failure, non-2xx
\* status) has, when its response is ready, an agent_call_failure audit event
\* for the selected agent and no agent_call_success event.
DispatchFailureAudited ==
  \A r \in ReqIds :
    LET q == reqs[r]
    IN (q.pc = "done" /\ q.downstream \in DispatchFailures)
         => /\ \E i \in 1..Len(q.audit) :
                 /\ q.audit[i].event_type = "agent_call_failure"
                 /\ q.audit[i].agent_type = q.selected_agent
            /\ \A i \in 1..Len(q.audit) : q.audit[i].event_type # "agent_call_success"

\* C12: whatever the downstream agent does once the POST is sent, no exception
\* leaves call_sub_agent (the handler answers 200 with the SubAgentResponse),
\* and the SubAgentResponse has status "error" unless a JSON object came back.
CallSubAgentNeverRaises ==
  \A r \in ReqIds :
    LET q == reqs[r]
    IN (q.pc = "done" /\ q.downstream # "none")
         => /\ q.response.code = 200
            /\ q.downstream # "ok" => q.response.sub_agent_responses[1].status = "error"

\* health probe outcomes of an agent that cannot be reached
Unreachable == {"timeout", "connect_error"}

\* C13: health_check returns a boolean for every agent type and every probe
\* outcome, False when the agent cannot be reached; every one of a series of
\* GET /health/agents calls against the same agents reports an agent that
\* cannot be reached as "unreachable", and the calls leave the state of the
\* service as it was.
HealthCheckIdempotent ==
  unit.kind = "health" =>
    /\ unit.op = "health_check" =>
         /\ unit.result \in {"True", "False"}
         /\ (unit.agent_type = PYTHON /\ unit.health.python \in Unreachable)
              => unit.result = "False"
         /\ (unit.agent_type = DOTNET /\ unit.health.dotnet \in Unreachable)
              => unit.result = "False"
    /\ \A i \in 1..Len(unit.reports) :
         /\ unit.health.python \in Unreachable
              => unit.reports[i].sub_agents.python = "unreachable"
         /\ unit.health.dotnet \in Unreachable
              => unit.reports[i].sub_agents.dotnet = "unreachable"
         /\ unit.reports[i] = unit.reports[1]
    /\ jwks_cache = FALSE /\ current_user_token = NoToken /\ threads = NoThreads
    /\ \A r \in ReqIds : reqs[r] = IdleReq

\* two calls, the python agent times out and the dotnet agent is healthy
HealthCheckIdempotentWitness ==
  /\ unit.op = "check_sub_agents"
  /\ Len(unit.reports) = 2
  /\ unit.health.python = "timeout"
  /\ unit.health.dotnet = "200"
  /\ unit.reports[2].sub_agents.python = "unreachable"
  /\ unit.reports[2].sub_agents.dotnet = "healthy"

\* the oracle was run and gave no usable answer
OracleFailed(outcome) ==
  \/ outcome.kind \in {"exit_nonzero", "bad_json", "cli_missing", "exception"}
  \/ outcome.kind = "result" /\ outcome.text \in { << >>, <<"u","n","s","u","r","e">> }

\* the agent keyword routing alone gives for a message
KeywordRouting(message) ==
  IF python_score(Lower(message)) > dotnet_score(Lower(message)) THEN PYTHON
  ELSE IF dotnet_score(Lower(message)) > python_score(Lower(message)) THEN DOTNET
  ELSE PYTHON

\* C14: when the oracle is run and fails (non-zero exit, empty or unrecognised
\* answer, malformed JSON, CLI missing, any other exception),
\* select_agent_async returns an agent, the one keyword routing gives for the
\* message.
OracleFailureFallsBack ==
  (unit.op = "select_agent_async" /\ unit.consulted /\ OracleFailed(unit.outcome))
    => /\ unit.result \in {PYTHON, DOTNET}
       /\ unit.result = KeywordRouting(unit.message)

\* the CLI is missing, the message has a dotnet keyword only
OracleFailureFallsBackWitness ==
  /\ unit.op = "select_agent_async"
  /\ unit.consulted
  /\ unit.outcome.kind = "cli_missing"
  /\ ~enabled
  /\ dotnet_score(Lower(unit.message)) > python_score(Lower(unit.message))
  /\ unit.result = DOTNET

\* C15: a request whose selection has started the oracle eventually gets its
\* agent selected, also when the oracle subprocess never completes.
OracleHangTimesOut ==
  \A r \in ReqIds : (reqs[r].pc = "await_oracle") ~> (reqs[r].pc # "await_oracle")

\* the audit events that describe a failure
FailureEvents ==
  {"jwt_validation_failure", "authorization_denied", "obo_token_failed", "agent_call_failure"}

\* C16: a request whose response is an error (401, 403, 500) or whose dispatch
\* failed has, when the response is ready, at least one audit event that
\* describes a failure.
ErrorOutcomesAudited ==
  \A r \in ReqIds :
    LET q == reqs[r]
    IN (q.pc = "done" /\ (q.response.code # 200 \/ q.downstream \in DispatchFailures))
         => \E i \in 1..Len(q.audit) :
              /\ q.audit[i].event_type \in FailureEvents
              /\ ~q.audit[i].success

\* C17: a request for which the emission of an audit record failed goes on as
\* if the record had been emitted: it is not answered with the error of the
\* emission, and its agent gets selected.
AuditFailureSwallowed ==
  \A r \in ReqIds :
    LET q == reqs[r]
    IN q.audit_failed =>
         /\ q.response.code = 500 => q.response.detail.cause # "log_event"
         /\ InSeq("select", q.stages)

\* C18: every request a tool sends while serving a POST /agent request of an
\* authenticated caller carries a token exchanged from that caller's own
\* token: not one exchanged from the token of another request in flight, and
\* not none.
ToolCallsUseOwnToken ==
  \A r \in ReqIds : \A i \in 1..Len(reqs[r].calls) :
    (REQUIRE_AUTH /\ reqs[r].endpoint = "agent" /\ reqs[r].credentials # NoToken)
      => /\ reqs[r].calls[i].authorization # NoToken
         /\ reqs[r].calls[i].authorization.sub = reqs[r].credentials.sub

\* C19: a POST /agent request that passed authentication and names a
\* preferred agent other than AUTO is answered with HTTP 200 and selected_agent
\* equal to the preferred agent.
AgentEndpointHonoursPreference ==
  \A r \in ReqIds :
    LET q == reqs[r]
    IN (q.endpoint = "agent" /\ q.pc = "done" /\ q.current_user # NoUser
          /\ q.preferred_agent # AUTO)
         => /\ q.response.code = 200
            /\ q.response.selected_agent = q.preferred_agent

\* C20: with the oracle off, a request of a caller whose roles are exactly
\* {"user"}, with preference AUTO and a message whose dotnet score exceeds its
\* python score, gets DOTNET selected and is not denied at the gate, with
\* ALLOW_ANY_AUTHENTICATED_USER on or off.
UserRoleReachesPayroll ==
  \A r \in ReqIds :
    LET q == reqs[r]
    IN ( /\ ~enabled
         /\ q.current_user # NoUser
         /\ q.current_user.roles = {"user"}
         /\ q.preferred_agent = AUTO
         /\ dotnet_score(Lower(q.message)) > python_score(Lower(q.message))
         /\ InSeq("authorize", q.stages) )
         => /\ q.selected_agent = DOTNET
            /\ q.response.code # 403
            /\ \A i \in 1..Len(q.audit) : q.audit[i].event_type # "authorization_denied"

\* the fallback is off, a validated token with the role user, the message
\* "PTO": the request has passed the gate
UserRoleReachesPayrollWitness ==
  \E r \in ReqIds :
    /\ ~ALLOW_ANY_AUTHENTICATED_USER
    /\ ~enabled
    /\ REQUIRE_AUTH
    /\ reqs[r].current_user # NoUser
    /\ reqs[r].current_user.roles = {"user"}
    /\ reqs[r].preferred_agent = AUTO
    /\ reqs[r].message = <<"P","T","O">>
    /\ reqs[r].selected_agent = DOTNET
    /\ reqs[r].pc = "exchange"

\* the number of times a stage occurs in the history of a request
StageCount(stage, stages) ==
  Cardinality({ i \in 1..Len(stages) : stages[i] = stage })

\* an audit event of the given type is in the trail of the request
Audited(q, event_type) ==
  \E i \in 1..Len(q.audit) : q.audit[i].event_type = event_type

\* C21: a request of the orchestration flow attempts the exchange at most
\* once, and a request whose exchange failed is finished with an error: it
\* holds no delegated token, and no dispatch and no downstream request follow.
ExchangeAtMostOnce ==
  \A r \in ReqIds :
    LET q == reqs[r]
    IN /\ StageCount("exchange", q.stages) <= 1
       /\ Cardinality({ i \in 1..Len(q.audit) :
                          q.audit[i].event_type \in {"obo_token_acquired",
                                                     "obo_token_failed"} }) <= 1
       /\ Audited(q, "obo_token_failed")
            => /\ q.pc = "done"
               /\ q.response.code = 500
               /\ q.obo_token = NoToken
               /\ ~InSeq("dispatch", q.stages)
               /\ q.calls = << >>

\* the client is registered and the identity provider rejected the exchange
ExchangeAtMostOnceWitness ==
  \E r \in ReqIds :
    /\ msal_app
    /\ reqs[r].pc = "done"
    /\ StageCount("exchange", reqs[r].stages) = 1
    /\ Audited(reqs[r], "obo_token_failed")
    /\ reqs[r].response.detail.cause = "AADSTS65001 consent required"

\* a request that is running the agent
Running(q) == q.endpoint = "agent" /\ q.pc = "agent_running"

\* C22: whatever the interleaving of the requests, an entry of the thread map
\* is never replaced or removed, a request that starts the agent without a
\* conversation id adds no entry and runs on no thread, and every request
\* that runs the agent with a conversation id runs on the thread the map
\* holds for that id.
OneThreadPerConversation ==
  /\ [][ /\ \A c \in DOMAIN threads : c \in DOMAIN threads' /\ threads'[c] = threads[c]
         /\ \A r \in ReqIds :
              ( /\ reqs[r].pc = "agent_start"
                /\ reqs'[r].pc = "agent_running"
                /\ reqs[r].conversation_id = NoConversation )
                => threads' = threads ]_vars
  /\ [](\A r \in ReqIds :
          Running(reqs[r]) =>
            IF reqs[r].conversation_id = NoConversation
              THEN reqs[r].thread = NoThread
              ELSE /\ reqs[r].conversation_id \in DOMAIN threads
                   /\ reqs[r].thread = threads[reqs[r].conversation_id]
                   /\ reqs[r].thread # NoThread)

\* two requests of the same conversation run at the same time on one thread
OneThreadPerConversationWitness ==
  /\ Running(reqs[1]) /\ Running(reqs[2])
  /\ reqs[1].conversation_id = "c1" /\ reqs[2].conversation_id = "c1"
  /\ reqs[1].thread = reqs[2].thread
  /\ reqs[1].thread = threads["c1"]

\* the keywords of a list that occur in a lower-cased message
KeywordsFound(keywords, message_lower) ==
  { i \in 1..Len(keywords) : Contains(keywords[i], message_lower) }

\* the call went through keyword routing
KeywordRouted ==
  \/ unit.op = "select_by_keywords"
  \/ /\ unit.op \in {"select_agent", "select_agent_async"}
     /\ unit.preferred_agent = AUTO
     /\ ~unit.consulted

\* C23: keyword routing returns DOTNET exactly when more keywords of the
\* dotnet list than of the python list occur in the lower-cased message, each
\* keyword counted once, and PYTHON otherwise.
KeywordRule ==
  KeywordRouted =>
    LET message_lower == Lower(unit.message)
    IN /\ unit.result \in {PYTHON, DOTNET}
       /\ unit.result = DOTNET <=>
            Cardinality(KeywordsFound(dotnet_keywords, message_lower))
              > Cardinality(KeywordsFound(python_keywords, message_lower))

\* "PTO PTO Python": the dotnet keyword occurs twice and counts once
KeywordRuleWitness ==
  /\ unit.op = "select_by_keywords"
  /\ unit.message = <<"P","T","O"," ","P","T","O"," ","P","y","t","h","o","n">>
  /\ unit.result = PYTHON

\* the agent labels an oracle answer mentions
LabelsMentioned(text) ==
  { a \in {PYTHON, DOTNET} :
      Contains(IF a = DOTNET THEN <<"d","o","t","n","e","t">>
                             ELSE <<"p","y","t","h","o","n">>, Lower(text)) }

\* C24: an oracle answer that mentions both agent labels, or none, is treated
\* as no answer: select_agent_async returns what keyword routing gives for the
\* message; an answer that mentions exactly one label selects that agent.
AmbiguousOracleAnswerIgnored ==
  (unit.op = "select_agent_async" /\ unit.consulted /\ unit.outcome.kind = "result")
    => IF Cardinality(LabelsMentioned(unit.outcome.text)) = 1
         THEN unit.result \in LabelsMentioned(unit.outcome.text)
         ELSE unit.result = KeywordRouting(unit.message)

\* the roles that have an entry in the policy table, admin aside
RecognisedRoles == {"analyst", "user", "viewer"}

\* C25: a caller without the admin role who holds a recognised role, and none
\* of whose roles allows the target agent, is denied by check_agent_access
\* also when ALLOW_ANY_AUTHENTICATED_USER is on.
FallbackOnlyForUnrecognised ==
  ( /\ unit.op = "check_agent_access"
    /\ ALLOW_ANY_AUTHENTICATED_USER
    /\ "admin" \notin unit.roles
    /\ unit.roles \cap RecognisedRoles # {}
    /\ \A role \in unit.roles : unit.agent_type \notin ROLE_PERMISSIONS(role) )
    => unit.result = "False"

\* C26: with ALLOW_ANY_AUTHENTICATED_USER off, check_agent_access is true
\* exactly when the roles contain admin or some held role's agents in the
\* policy table contain the agent; a role without an entry adds nothing.
AccessIffRoleAllows ==
  (unit.op = "check_agent_access" /\ ~ALLOW_ANY_AUTHENTICATED_USER)
    => ( unit.result = "True" <=>
           \/ "admin" \in unit.roles
           \/ \E role \in unit.roles \cap (RecognisedRoles \cup {"admin"}) :
                unit.agent_type \in ROLE_PERMISSIONS(role) )

\* analyst next to a role without an entry asks for the python agent
AccessIffRoleAllowsWitness ==
  /\ unit.op = "check_agent_access"
  /\ ~ALLOW_ANY_AUTHENTICATED_USER
  /\ unit.roles = {"analyst", "guest"}
  /\ unit.agent_type = PYTHON
  /\ unit.result = "True"

\* the error descriptions of an exchange the identity provider rejected
RejectionCauses == { o.desc : o \in { x \in IdpOutcomes : x.kind = "rejected" } }

\* C27: a request whose exchange failed is answered 401 when the identity
\* provider rejected the exchange, and 500 when the client is not registered
\* or the call of the identity provider raised.
ExchangeFailureStatusByCause ==
  \A r \in ReqIds :
    LET q == reqs[r]
    IN (q.pc = "done" /\ Audited(q, "obo_token_failed"))
         => IF msal_app /\ q.response.detail.cause \in RejectionCauses
              THEN q.response.code = 401
              ELSE q.response.code = 500

\* C28: the POST built by call_sub_agent has an Authorization header exactly
\* when a delegated token was passed in and REQUIRE_AUTH is on, and then the
\* header is that token; URL, path and payload are those of the agent and of
\* the message whatever the token and the flag.
BearerIffTokenAndFlag ==
  unit.op = "call_sub_agent" =>
    /\ unit.request.authorization # NoToken <=> (unit.obo_token # NoToken /\ REQUIRE_AUTH)
    /\ unit.request.authorization # NoToken => unit.request.authorization = unit.obo_token
    /\ unit.request.url = IF unit.agent_type = PYTHON THEN PYTHON_AGENT_URL
                          ELSE DOTNET_AGENT_URL
    /\ unit.request.path = "/agent"
    /\ unit.request.payload = [message |-> unit.message,
                               conversation_id |-> unit.conversation_id]

\* a delegated token is passed in while REQUIRE_AUTH is off: no header
BearerIffTokenAndFlagWitness ==
  /\ unit.op = "call_sub_agent"
  /\ ~REQUIRE_AUTH
  /\ unit.obo_token # NoToken
  /\ unit.request.authorization = NoToken
  /\ unit.request.url = DOTNET_AGENT_URL

\* the agent type the policy knows a backend URL by
PolicyAgentOf(url) == IF url = DOTNET_AGENT_URL THEN DOTNET ELSE PYTHON

\* C29: on both POST endpoints a request is sent to a backend only for a
\* request that went through the authorization gate, and a request sent to an
\* agent goes to an agent the policy allows the caller.
NoBackendCallBeforePolicy ==
  \A r \in ReqIds : \A i \in 1..Len(reqs[r].calls) :
    LET q == reqs[r]
    IN /\ InSeq("authorize", q.stages)
       /\ q.calls[i].url \in {PYTHON_AGENT_URL, DOTNET_AGENT_URL}
            => check_agent_access(q.current_user.roles, PolicyAgentOf(q.calls[i].url),
                                  ALLOW_ANY_AUTHENTICATED_USER)

\* the scopes configured for an agent
ConfiguredScopes(agent_type) ==
  CASE agent_type = PYTHON -> PYTHON_AGENT_SCOPES
    [] agent_type = DOTNET -> DOTNET_AGENT_SCOPES

\* C30: every exchange of a request, successful or not, asks for exactly the
\* scopes configured for the agent that was selected and authorized, and the
\* token a request sends to an agent was issued for that agent's scopes.
ExchangeScopesOfSelectedAgent ==
  \A r \in ReqIds :
    LET q == reqs[r]
    IN /\ \A i \in 1..Len(q.audit) :
            q.audit[i].event_type \in {"obo_token_acquired", "obo_token_failed"}
              => /\ q.selected_agent \in {PYTHON, DOTNET}
                 /\ q.audit[i].agent_type = q.selected_agent
                 /\ q.audit[i].details.scopes = ConfiguredScopes(q.selected_agent)
                 /\ check_agent_access(q.current_user.roles, q.selected_agent,
                                       ALLOW_ANY_AUTHENTICATED_USER)
       /\ q.obo_token # NoToken
            => q.obo_token.scopes = ConfiguredScopes(q.selected_agent)
       /\ \A i \in 1..Len(q.calls) :
            q.calls[i].authorization # NoToken
              => /\ q.calls[i].agent_type = q.selected_agent
                 /\ q.calls[i].authorization.scopes = ConfiguredScopes(q.calls[i].agent_type)

\* a token for the python agent was acquired and sent to the python agent
ExchangeScopesOfSelectedAgentWitness ==
  \E r \in ReqIds :
    /\ reqs[r].pc = "await_agent"
    /\ reqs[r].selected_agent = PYTHON
    /\ reqs[r].obo_token # NoToken
    /\ reqs[r].obo_token.scopes = PYTHON_AGENT_SCOPES
    /\ reqs[r].calls[1].authorization = reqs[r].obo_token
    /\ reqs[r].calls[1].url = PYTHON_AGENT_URL

\* the response of a request that presented the given token in place of its own
ResponseWithToken(token, cache) ==
  LET res == get_current_user(REQUIRE_AUTH, TEST_USER_ROLES, token, cache, "ok")
  IN HTTPError(res.status, res.detail)

\* the response of a request whose exchange got the given answer
ResponseWithIdp(q, idp) ==
  LET res == get_obo_token(msal_app, q.credentials, target_scopes(q.selected_agent), idp)
  IN HTTPError(res.status, res.detail)

\* C31: a request rejected because a check of its token failed is answered
\* as it would be had another check failed, and a request whose exchange the
\* identity provider rejected is answered as it would be for any other error
\* description: status and detail do not depend on the reason.
RejectionDetailGeneric ==
  \A r \in ReqIds :
    LET q == reqs[r]
    IN /\ (q.pc = "done" /\ q.response.code = 401 /\ q.credentials # NoToken)
            => \A c \in TokenChecks \ {"ok"} :
                 ResponseWithToken([q.credentials EXCEPT !.check = c], TRUE) = q.response
       /\ (q.pc = "done" /\ Audited(q, "obo_token_failed")
             /\ q.response.detail.cause \in RejectionCauses)
            => \A idp \in { o \in IdpOutcomes : o.kind = "rejected" } :
                 ResponseWithIdp(q, idp) = q.response

\* the fixed identity of auth.py 155-161
TestIdentity == [kind |-> "claims", oid |-> "test-user", roles |-> TEST_USER_ROLES]

\* the agents select_agent_async can return for a message and a preference;
\* the outcomes with which the oracle fails give the selection by keywords
SelectionsOf(message, preferred_agent) ==
  { select_agent_async(message, preferred_agent, TRUE, o) : o \in OracleOutcomes }

\* C32: with REQUIRE_AUTH off the request is served as a function of its
\* message, preference and conversation id alone: whatever Authorization
\* header it carries, the identity is the test identity, the key set is never
\* fetched, no exchange is attempted, the selection is one the selector makes
\* for the message, the gate decides on the roles of the test identity, and
\* the downstream request is the one built without a token.
HeaderIgnoredWithoutAuth ==
  ~REQUIRE_AUTH =>
    /\ jwks_cache = FALSE
    /\ \A r \in ReqIds :
         LET q == reqs[r]
         IN /\ \A cred \in UserTokens(CallerOf[r]) \cup {NoToken} :
                 /\ get_current_user(REQUIRE_AUTH, TEST_USER_ROLES, cred,
                                     jwks_cache, "fail").status = 0
                 /\ InSeq("validate", q.stages)
                      => get_current_user(REQUIRE_AUTH, TEST_USER_ROLES, cred,
                                          jwks_cache, "fail").claims = q.current_user
            /\ InSeq("validate", q.stages) => q.current_user = TestIdentity
            /\ q.response.code # 401
            /\ ~InSeq("exchange", q.stages)
            /\ ~Audited(q, "obo_token_acquired") /\ ~Audited(q, "obo_token_failed")
            /\ q.obo_token = NoToken
            /\ q.selected_agent # NoAgent
                 => q.selected_agent \in SelectionsOf(q.message, q.preferred_agent)
            /\ InSeq("authorize", q.stages)
                 => (q.response.code = 403
                       <=> ~check_agent_access(TEST_USER_ROLES, q.selected_agent,
                                               ALLOW_ANY_AUTHENTICATED_USER))
            /\ \A i \in 1..Len(q.calls) :
                 /\ q.calls[i].authorization = NoToken
                 /\ q.calls[i] = sub_agent_request(q.selected_agent, q.message, NoToken,
                                                   q.conversation_id, FALSE)
            /\ q.response.code = 200 => ~q.response.obo_token_acquired

\* with REQUIRE_AUTH off, a request that presented an expired token has been
\* dispatched to an agent
HeaderIgnoredWithoutAuthWitness ==
  /\ ~REQUIRE_AUTH
  /\ \E r \in ReqIds :
       /\ reqs[r].pc = "await_agent"
       /\ reqs[r].credentials # NoToken
       /\ reqs[r].credentials.check = "expired"
       /\ Len(reqs[r].calls) = 1
       /\ reqs[r].calls[1].authorization = NoToken

\* the four roles of the policy, highest first
RolePriority == <<"admin", "analyst", "user", "viewer">>

\* the roles of the policy a role list holds
HeldRoles(roles) ==
  { roles[i] : i \in 1..Len(roles) } \cap { RolePriority[k] : k \in 1..Len(RolePriority) }

\* C33: get_user_role_level returns the first role of admin, analyst, user,
\* viewer that the list holds, "authenticated_no_role" exactly when the list
\* holds none of them, and the same level for every list that holds the same
\* roles of the four, in whatever order and with whatever other roles.
RoleLevelIsHighestHeld ==
  unit.op = "get_user_role_level" =>
    LET held == HeldRoles(unit.role_list)
    IN /\ unit.result = "authenticated_no_role" <=> held = {}
       /\ held # {}
            => \E k \in 1..Len(RolePriority) :
                 /\ unit.result = RolePriority[k]
                 /\ RolePriority[k] \in held
                 /\ \A j \in 1..(k - 1) : RolePriority[j] \notin held
       /\ \A other \in RoleLists :
            HeldRoles(other) = held => get_user_role_level(other) = unit.result

\* a list with a lower role first, an unknown role and a higher role last
RoleLevelIsHighestHeldWitness ==
  /\ unit.op = "get_user_role_level"
  /\ unit.role_list = <<"viewer", "guest", "analyst">>
  /\ unit.result = "analyst"

\* a validation is talking to the key source
Fetching(val) == val.pc \in {"get_metadata", "get_keys"}

\* C34: once the key set is cached, no step changes or clears the cache and
\* no validation sends a request to the key source; a fetch that fails leaves
\* the cache as it was, and a validation that starts with an empty cache and
\* a configured tenant fetches.
KeySetFetchedOnce ==
  [][ /\ jwks_cache
        => /\ jwks_cache'
           /\ unit'.key_set = unit.key_set
           /\ \A v \in Validations :
                unit'.val[v].pc = "get_keys" => unit.val[v].pc = "get_keys"
           /\ \A v \in Validations :
                unit'.val[v].pc = "get_metadata" => unit.val[v].pc = "get_metadata"
      /\ \A v \in Validations :
           (Fetching(unit.val[v]) /\ unit'.val[v].status = 500)
             => (jwks_cache' = jwks_cache /\ unit'.key_set = unit.key_set)
      /\ \A v \in Validations :
           (~jwks_cache /\ unit.tenant /\ unit.val[v].pc = "idle"
              /\ unit'.val[v].pc # "idle")
             => unit'.val[v].pc = "get_metadata"
    ]_vars

\* the event types of the audit trail of a request, in the order recorded
TrailOf(q) == [i \in 1..Len(q.audit) |-> q.audit[i].event_type]

ExchangeEvents == {"obo_token_acquired", "obo_token_failed"}

AgentCallEvents == {"agent_call_success", "agent_call_failure"}

\* the request attempts an exchange (api.py 132)
ExchangeAttempted(q) == REQUIRE_AUTH /\ q.credentials # NoToken

\* C35: the audit trail of a request of the orchestration flow starts with
\* jwt_validation_success, then agent_selected; its third event is
\* authorization_denied, which ends the trail, or the one exchange event of a
\* request that attempts the exchange, or the agent-call event of a request
\* that does not; obo_token_failed ends the trail, and after
\* obo_token_acquired only one agent-call event follows.
AuditTrailOrdered ==
  \A r \in ReqIds :
    LET q == reqs[r]
        trail == TrailOf(q)
        n == Len(trail)
    IN /\ n <= 4
       /\ n >= 1 => trail[1] = "jwt_validation_success"
       /\ n >= 2 => trail[2] = "agent_selected"
       /\ n >= 3 => \/ trail[3] = "authorization_denied" /\ n = 3
                    \/ trail[3] = "obo_token_failed" /\ n = 3 /\ ExchangeAttempted(q)
                    \/ trail[3] = "obo_token_acquired" /\ ExchangeAttempted(q)
                    \/ trail[3] \in AgentCallEvents /\ n = 3 /\ ~ExchangeAttempted(q)
       /\ n = 4 => trail[3] = "obo_token_acquired" /\ trail[4] \in AgentCallEvents
       /\ (ExchangeAttempted(q) /\ q.pc \in {"dispatch", "await_agent"})
            => Cardinality({ i \in 1..n : trail[i] \in ExchangeEvents }) = 1

\* a full trail: validation, selection, exchange, agent call
AuditTrailOrderedWitness ==
  \E r \in ReqIds :
    /\ reqs[r].pc = "done"
    /\ TrailOf(reqs[r]) = <<"jwt_validation_success", "agent_selected",
                            "obo_token_acquired", "agent_call_failure">>

\* no run_agent and no run_agent_stream call is in flight, whether made by
\* POST /agent or directly
NoAgentCallInFlight ==
  /\ \A r \in ReqIds : reqs[r].pc # "agent_running"
  /\ unit.op = "agent_service" => \A c \in ServiceCalls : unit.call[c].pc = "idle"

\* C36: whenever no run_agent or run_agent_stream call is in flight the
\* stored caller token is None, whatever the calls before returned.
TokenClearedWhenIdle ==
  NoAgentCallInFlight => current_user_token = NoToken

\* two calls with a token have finished, one by run_agent with the error
\* string after an exception, one by run_agent_stream
TokenClearedWhenIdleWitness ==
  /\ unit.op = "agent_service"
  /\ NoAgentCallInFlight
  /\ unit.call[1].method = "run_agent"
  /\ unit.call[1].user_token # NoToken
  /\ unit.call[1].result = "Error processing request"
  /\ unit.call[2].method = "run_agent_stream"
  /\ unit.call[2].user_token # NoToken
  /\ unit.call[2].result = "delta"

\* C37: the enabled flag of the oracle is false after construction when the
\* CLI is unavailable or routing was not switched on; no step sets it from
\* false to true, the only step that sets it to false is an invocation that
\* finds the CLI missing, and every such invocation does; route_with_ai
\* called while the flag is false returns None and starts no subprocess.
EnabledOnlyFalls ==
  /\ [](unit.kind = "selector"
          => (enabled => (unit.use_intelligent_routing /\ unit.claude_available)))
  /\ [][ /\ enabled' => enabled
         /\ (enabled /\ ~enabled')
              => (unit'.consulted /\ unit'.outcome.kind = "cli_missing")
         /\ (enabled /\ unit'.op \in {"route_with_ai", "select_agent_async"}
               /\ unit'.consulted /\ unit'.outcome.kind = "cli_missing")
              => ~enabled'
         /\ (~enabled /\ unit'.op = "route_with_ai")
              => /\ unit'.result = NoAgent
                 /\ unit'.outcome = NoOutcome
                 /\ ~unit'.consulted
       ]_vars

\* an invocation found the CLI missing and switched the oracle off
EnabledOnlyFallsWitness ==
  /\ unit.op = "route_with_ai"
  /\ unit.use_intelligent_routing /\ unit.claude_available
  /\ unit.consulted
  /\ unit.outcome.kind = "cli_missing"
  /\ unit.result = NoAgent
  /\ ~enabled

\* the call returns in this step
ShellCallReturns(c) == unit.call[c].pc = "running" /\ unit'.call[c].pc = "idle"

\* the call starts in this step
ShellCallStarts(c) == unit.call[c].pc = "idle" /\ unit'.call[c].pc = "running"

\* the CLI exited with 0 and printed a JSON object with a session id
SessionReported(outcome) == outcome.kind = "result" /\ outcome.session_id \in SessionIds

\* C38: the session map of the python agent changes only in a step in which
\* a call with a conversation id returns after the CLI exited with 0 and
\* printed a JSON object with a session id, and then only the entry of that
\* conversation changes and becomes that session id; a call that returns in
\* any other way, or without a conversation id, leaves the map as it is; a
\* call that starts for a conversation resumes the session stored for it.
SessionMapFrame ==
  [][ /\ \A conv \in ShellConversations :
           unit'.claude_sessions[conv] # unit.claude_sessions[conv]
             => \E c \in ShellCalls :
                  /\ ShellCallReturns(c)
                  /\ unit.call[c].conversation_id = conv
                  /\ SessionReported(unit'.call[c].outcome)
                  /\ unit'.claude_sessions[conv] = unit'.call[c].outcome.session_id
      /\ \A c \in ShellCalls :
           (ShellCallReturns(c) /\ SessionReported(unit'.call[c].outcome)
              /\ unit.call[c].conversation_id # NoConversation)
             => unit'.claude_sessions[unit.call[c].conversation_id]
                  = unit'.call[c].outcome.session_id
      /\ \A c \in ShellCalls :
           ShellCallStarts(c)
             => unit'.call[c].resume =
                  IF unit'.call[c].conversation_id = NoConversation THEN NoSession
                  ELSE unit.claude_sessions[unit'.call[c].conversation_id]
    ]_vars

\* a call for conversation c1 resumed the stored session s1 and has replaced
\* it by s2, while the entry of c2 holds what an earlier call stored
SessionMapFrameWitness ==
  /\ unit.op = "run_shell_agent"
  /\ \E c \in ShellCalls :
       /\ unit.call[c].pc = "idle"
       /\ unit.call[c].conversation_id = "c1"
       /\ unit.call[c].resume = "s1"
       /\ unit.call[c].outcome = [kind |-> "result", session_id |-> "s2"]
  /\ unit.claude_sessions["c1"] = "s2"
  /\ unit.claude_sessions["c2"] = "s1"

====
